---------------------------- MODULE Spec2Model ----------------------------
(***************************************************************************)
(* BrandGuard: the asynchronous job pipeline (BrandGuardPipeline and the   *)
(* in-memory registry pipeline_jobs), the routes that dispatch it, and the *)
(* Neo4j graph store with the handlers and scripts that write to it.       *)
(*                                                                         *)
(* Python values are modelled as tagged records (JSON values).  Accuracy   *)
(* on the 0-1 scale is kept in hundredths (0.5 is 50, 0.6 is 60).          *)
(* The asyncio event loop runs one coroutine at a time: `current` holds   *)
(* the job whose coroutine has the loop and is empty between awaits.       *)
(* Timestamps (start_time, end_time, detected_at) are not modelled.        *)
(***************************************************************************)
EXTENDS Integers, Sequences, FiniteSets, TLC

(* ------------------------------ bounds -------------------------------- *)

MaxJobs == 2

\* job ids handed out when one workflow is followed on its own
MaxSoloJobs == 1

MaxMentions == 1

MaxCorrections == 1

\* Mention and Correction nodes when the graph routes are followed on their own
MaxGraphMentions == 2

MaxGraphCorrections == 1

\* Mention nodes written by the webhook, the scan and the seed scripts
MaxIngested == 1

\* Mention and Correction nodes when the graph routes are followed on a few
\* requests
MaxLinkMentions == 2

MaxLinkCorrections == 1

\* the mentions of a graph the health route is asked about
MaxHealthMentions == 10

\* the mentions of a graph the network route is asked about
MaxNetworkMentions == 3

\* Mention nodes in the graphs the rankings (threats, sources) are asked about
MaxRankedMentions == 3

\* Mention nodes in the graphs init_schema is run on with any statements failing
MaxSchemaMentions == 2

\* the longest timeout and the longest interval of a poll, in ticks
MaxPollTimeout == 4

MaxPollInterval == 2

Jobs == 1..MaxJobs

(* --------------------------- Python values ---------------------------- *)

Num(n) == [t |-> "num", n |-> n]

Str(s) == [t |-> "str", s |-> s]

Bool(b) == [t |-> "bool", b |-> b]

NoneV == [t |-> "none"]

List(items) == [t |-> "list", items |-> items]

Dict(d) == [t |-> "dict", d |-> d]

\* a dict key that was never set
Absent == [t |-> "absent"]

\* a local variable not assigned yet
Unset == [t |-> "unset"]

\* only a dict has .get; on anything else Python raises AttributeError
HasGet(v) == v.t = "dict"

\* dict.get(key, default)
Get(v, key, default) == IF key \in DOMAIN v.d THEN v.d[key] ELSE default

\* `a < b` on Python values: defined between numbers, TypeError otherwise
Comparable(v) == v.t = "num"

(* ----------------------- collaborator outcomes ------------------------ *)

\* an awaited call that raised an Exception
Raised == [t |-> "raised"]

\* one accuracy inside each range the scoring step tells apart
AccuracyValues == {50, 70, 85, 95}

\* what geo_client.evaluate can hand back: response.json() of any shape
EvaluatePayloads ==
    {Dict([accuracy |-> Num(a), citations |-> List(<<>>), missing |-> List(<<>>)]) :
        a \in AccuracyValues}
    \cup {Dict([citations |-> List(<<>>), missing |-> List(<<>>)]),
          Dict([accuracy |-> NoneV, citations |-> List(<<>>), missing |-> List(<<>>)]),
          List(<<>>)}

EvaluateOutcomes == EvaluatePayloads \cup {Raised}

SearchPayloads == {Dict([results |-> List(<<>>), answer |-> Str("answer")])}

SearchOutcomes == SearchPayloads \cup {Raised}

GeneratePayloads ==
    {Dict([generated_text |-> Str("correction text")]),
     Dict([text |-> Str("correction text")]),
     Dict([generated_text |-> NoneV]),
     List(<<>>)}

GenerateOutcomes == GeneratePayloads \cup {Raised}

\* keyword parameters of SensoGEOClient.remediate
SensoRemediateParams == {"context", "optimize_for", "targets"}

\* keywords BrandGuardPipeline.remediate passes to it
RemediateCallKeywords == {"context", "optimize_for", "target_networks"}

\* Python binds a call only if every keyword names a parameter; otherwise the
\* call raises TypeError before the coroutine is created
RemediateCallBinds == RemediateCallKeywords \subseteq SensoRemediateParams

(* ------------------------------ fallbacks ----------------------------- *)

NeutralAccuracy == 50

\* a fallback whose accuracy is not a number
EvalFallbackNotNumeric ==
    Dict([accuracy |-> NoneV, citations |-> List(<<>>), missing |-> List(<<>>)])

EvalFallback ==
    Dict([accuracy |-> Num(NeutralAccuracy), citations |-> List(<<>>), missing |-> List(<<>>)])

SearchFallback ==
    Dict([results |-> List(<<Dict([title |-> Str("Mock Source"), url |-> Str("https://example.com")])>>)])

EvalDetailFallback ==
    Dict([accuracy |-> Num(NeutralAccuracy), missing |-> List(<<Str("Fact A")>>)])

StrategyFallback == Dict([strategy |-> Str("Acknowledge and correct")])

GenerateFallback ==
    Dict([generated_text |-> Str("We are aware of the statements and want to clarify our position based on our official guidelines.")])

(* ------------------------------ variables ----------------------------- *)

VARIABLES
    pipeline_jobs,   \* the registry: job id -> record, only for ids written so far
    co,              \* per job id: the coroutine (kind, position, arguments, locals)
    dispatched,      \* how many job ids the routes have generated
    current,         \* {job} while that job's coroutine holds the event loop, else {}
    graph,           \* the Neo4j database: nodes, relationships, constraints, indexes
    calls,           \* the client calls in progress: store_mention calls that still
                     \* have source queries to run, polls of a Yutori task
    reply            \* what the last finished Neo4jClient call gave its caller

vars == <<pipeline_jobs, co, dispatched, current, graph, calls, reply>>

(* ------------------------------ registry ------------------------------ *)

PendingStep(name) == [name |-> name, status |-> "pending", result |-> Absent]

ProcessSteps ==
    <<PendingStep("senso_evaluate"), PendingStep("tavily_search"),
      PendingStep("score_severity"), PendingStep("neo4j_store")>>

InvestigateSteps ==
    <<PendingStep("tavily_extract"), PendingStep("yutori_research"),
      PendingStep("neo4j_update")>>

RemediateSteps ==
    <<PendingStep("senso_evaluate_detail"), PendingStep("senso_remediate_strategy"),
      PendingStep("senso_generate_content"), PendingStep("neo4j_store_correction")>>

\* pipeline_jobs[job_id] = {"status": "running", "steps": [...], "result": None}
NewRecord(steps) ==
    [status |-> "running", steps |-> steps, result |-> NoneV, error |-> Absent]

InitRecord(jobs, job_id, steps) ==
    IF job_id \in DOMAIN jobs
    THEN [jobs EXCEPT ![job_id] = NewRecord(steps)]
    ELSE (job_id :> NewRecord(steps)) @@ jobs

\* the step is looked up by name in every record, not only in job_id's
UpdateJobStepAnyJob(jobs, job_id, step_name, status, result) ==
    [k \in DOMAIN jobs |->
        [jobs[k] EXCEPT !.steps =
            [i \in DOMAIN @ |->
                IF @[i].name = step_name
                THEN [name |-> step_name, status |-> status,
                      result |-> IF result # NoneV THEN result ELSE @[i].result]
                ELSE @[i]]]]

\* BrandGuardPipeline._update_job_step
UpdateJobStep(jobs, job_id, step_name, status, result) ==
    IF job_id \notin DOMAIN jobs THEN jobs
    ELSE LET steps == jobs[job_id].steps
             hits == {i \in DOMAIN steps : steps[i].name = step_name}
         IN IF hits = {} THEN jobs
            ELSE LET i == CHOOSE x \in hits : \A y \in hits : x <= y
                 IN [jobs EXCEPT ![job_id].steps[i] =
                        [name |-> step_name,
                         status |-> status,
                         result |-> IF result # NoneV THEN result ELSE @.result]]


\* the success write sets the status and leaves the result as it was
CompleteWriteStatusOnly(jobs, job_id, final_result) ==
    [jobs EXCEPT ![job_id].status = "completed"]

\* the success write: status, result (and end_time)
CompleteWrite(jobs, job_id, final_result) ==
    [jobs EXCEPT ![job_id].status = "completed", ![job_id].result = final_result]

\* the except block records the error and leaves the status
FailWriteKeepsStatus(jobs, job_id, message) ==
    IF job_id \in DOMAIN jobs
    THEN [jobs EXCEPT ![job_id].error = Str(message)]
    ELSE jobs

\* the except block writes a new failed record over the old one
FailWriteResetsSteps(jobs, job_id, message) ==
    IF job_id \in DOMAIN jobs
    THEN [jobs EXCEPT ![job_id] =
            [status |-> "failed",
             steps |-> [i \in DOMAIN @.steps |-> PendingStep(@.steps[i].name)],
             result |-> NoneV, error |-> Str(message)]]
    ELSE jobs

\* the except block marks the job failed and records no error
FailWriteWithoutError(jobs, job_id, message) ==
    IF job_id \in DOMAIN jobs
    THEN [jobs EXCEPT ![job_id].status = "failed"]
    ELSE jobs

\* the except block's write: status and error, guarded by `job_id in pipeline_jobs`
FailWrite(jobs, job_id, message) ==
    IF job_id \in DOMAIN jobs
    THEN [jobs EXCEPT ![job_id].status = "failed", ![job_id].error = Str(message)]
    ELSE jobs

\* GET /pipeline/status/{job_id}: the record itself, or 404
get_pipeline_status(job_id) ==
    IF job_id \notin DOMAIN pipeline_jobs THEN [t |-> "404"] ELSE pipeline_jobs[job_id]

(* ------------------------------ the graph ----------------------------- *)

\* the uniqueness constraints init_schema asks for
ConstraintNames == {"brand_id", "platform_name", "mention_id", "source_url", "correction_id"}

\* a new database: nodes in creation order (the position is the element id),
\* relationships, and the constraints in force
EmptyGraph == [nodes |-> <<>>, rels |-> <<>>, constraints |-> {}, indexes |-> {}]

Labelled(g, label) == {i \in DOMAIN g.nodes : g.nodes[i].label = label}

BrandsWith(g, id) == {i \in Labelled(g, "Brand") : g.nodes[i].id = id}

PlatformsWith(g, name) == {i \in Labelled(g, "Platform") : g.nodes[i].name = name}

MentionsWith(g, id) == {i \in Labelled(g, "Mention") : g.nodes[i].id = id}

SourcesWith(g, url) == {i \in Labelled(g, "Source") : g.nodes[i].url = url}

CorrectionsWith(g, id) == {i \in Labelled(g, "Correction") : g.nodes[i].id = id}

RelsOf(g, type) == {k \in DOMAIN g.rels : g.rels[k].type = type}

Rel(type, src, dst) == [type |-> type, src |-> src, dst |-> dst]

Least(S) == CHOOSE x \in S : \A y \in S : x <= y

\* MERGE (n {key}) ON CREATE SET ...: the node that matches, else a new one
MergeNode(g, matches, node) ==
    IF matches # {} THEN g ELSE [g EXCEPT !.nodes = Append(@, node)]

\* the node MERGE bound: the match, or the node just appended
Merged(g, matches) == IF matches # {} THEN Least(matches) ELSE Len(g.nodes) + 1

CreateRel(g, type, src, dst) == [g EXCEPT !.rels = Append(@, Rel(type, src, dst))]

\* MERGE (a)-[:TYPE]->(b)
MergeRel(g, type, src, dst) ==
    IF \E k \in RelsOf(g, type) : g.rels[k].src = src /\ g.rels[k].dst = dst
    THEN g ELSE CreateRel(g, type, src, dst)

UrlA == "https://example.com/a"

UrlB == "https://other.org/b"

\* urlparse(url).netloc or url
extract_domain(url) ==
    CASE url = UrlA -> "example.com"
      [] url = UrlB -> "other.org"
      [] OTHER -> url

\* str(uuid.uuid4()): an id no node has
FreshId(g) == "uuid-" \o ToString(Len(g.nodes) + 1)

\* a uniqueness constraint refuses a CREATE that would give two nodes one key
MentionIdTaken(g, mention_id) ==
    "mention_id" \in g.constraints /\ MentionsWith(g, mention_id) # {}

\* only a score above 70 counts as accurate
IsAccurateAbove(mention) == mention.accuracy_score > 70

\* store_mention line 103
IsAccurate(mention) == mention.accuracy_score >= 70

\* the Brand is created, not merged
CreateMentionNewBrand(g, mention, mention_id) ==
    LET g1 == [g EXCEPT !.nodes = Append(@,
                  [label |-> "Brand", id |-> mention.brand_id, name |-> mention.brand_name])]
        b == Len(g1.nodes)
        g2 == MergeNode(g1, PlatformsWith(g1, mention.platform),
                        [label |-> "Platform", name |-> mention.platform])
        p == Merged(g1, PlatformsWith(g1, mention.platform))
        g3 == [g2 EXCEPT !.nodes = Append(@,
                  [label |-> "Mention", id |-> mention_id, claim |-> mention.claim,
                   accuracy_score |-> mention.accuracy_score,
                   is_accurate |-> IsAccurate(mention),
                   severity |-> mention.severity, detected_at |-> "now"])]
        m == Len(g3.nodes)
    IN CreateRel(CreateRel(g3, "ABOUT", m, b), "FOUND_ON", m, p)

\* the Mention is linked to its Platform by MERGE on the relationship type alone
CreateMentionSharedPlatformEdge(g, mention, mention_id) ==
    LET g1 == MergeNode(g, BrandsWith(g, mention.brand_id),
                        [label |-> "Brand", id |-> mention.brand_id, name |-> mention.brand_name])
        b == Merged(g, BrandsWith(g, mention.brand_id))
        g2 == MergeNode(g1, PlatformsWith(g1, mention.platform),
                        [label |-> "Platform", name |-> mention.platform])
        g3 == [g2 EXCEPT !.nodes = Append(@,
                  [label |-> "Mention", id |-> mention_id, claim |-> mention.claim,
                   accuracy_score |-> mention.accuracy_score,
                   is_accurate |-> IsAccurate(mention),
                   severity |-> mention.severity, detected_at |-> "now"])]
        m == Len(g3.nodes)
        g4 == CreateRel(g3, "ABOUT", m, b)
    IN IF RelsOf(g4, "FOUND_ON") # {} THEN g4
       ELSE CreateRel(g4, "FOUND_ON", m, Merged(g1, PlatformsWith(g1, mention.platform)))

\* store_mention lines 102-120, the first query: Brand and Platform merged, the
\* Mention and its two relationships created (no caller names a detected_at
\* other than the time of the call, written "now")
CreateMention(g, mention, mention_id) ==
    LET g1 == MergeNode(g, BrandsWith(g, mention.brand_id),
                        [label |-> "Brand", id |-> mention.brand_id, name |-> mention.brand_name])
        b == Merged(g, BrandsWith(g, mention.brand_id))
        g2 == MergeNode(g1, PlatformsWith(g1, mention.platform),
                        [label |-> "Platform", name |-> mention.platform])
        p == Merged(g1, PlatformsWith(g1, mention.platform))
        g3 == [g2 EXCEPT !.nodes = Append(@,
                  [label |-> "Mention", id |-> mention_id, claim |-> mention.claim,
                   accuracy_score |-> mention.accuracy_score,
                   is_accurate |-> IsAccurate(mention),
                   severity |-> mention.severity, detected_at |-> "now"])]
        m == Len(g3.nodes)
    IN CreateRel(CreateRel(g3, "ABOUT", m, b), "FOUND_ON", m, p)

\* the rows of two MATCH clauses in a fixed order
FirstRow(rows) ==
    CHOOSE r \in rows :
        \A q \in rows : r[1] < q[1] \/ (r[1] = q[1] /\ r[2] <= q[2])


\* the source query also rewrites the severity of the Mention it links
RECURSIVE LinkRowsMarksMention(_, _, _)
LinkRowsMarksMention(g, rows, url) ==
    IF rows = {} THEN g
    ELSE LET r == FirstRow(rows)
             g1 == MergeNode(g, SourcesWith(g, url),
                             [label |-> "Source", url |-> url, domain |-> extract_domain(url)])
             s == Merged(g, SourcesWith(g, url))
             g2 == CreateRel(g1, "SOURCED_FROM", r[1], s)
             g3 == [g2 EXCEPT !.nodes[r[1]].severity = "low"]
         IN LinkRowsMarksMention(MergeRel(g3, "FEEDS", s, r[2]), rows \ {r}, url)

\* store_mention lines 142-145, for each (Mention, Platform) row matched: the
\* Source merged, SOURCED_FROM created, FEEDS merged
RECURSIVE LinkRows(_, _, _)
LinkRows(g, rows, url) ==
    IF rows = {} THEN g
    ELSE LET r == FirstRow(rows)
             g1 == MergeNode(g, SourcesWith(g, url),
                             [label |-> "Source", url |-> url, domain |-> extract_domain(url)])
             s == Merged(g, SourcesWith(g, url))
             g2 == CreateRel(g1, "SOURCED_FROM", r[1], s)
         IN LinkRows(MergeRel(g2, "FEEDS", s, r[2]), rows \ {r}, url)

\* store_mention lines 138-156, the query of one source url
LinkSource(g, mention_id, platform, url) ==
    LinkRows(g, MentionsWith(g, mention_id) \X PlatformsWith(g, platform), url)

\* the (Mention, Brand) rows store_correction matches
CorrectionRows(g, mention_id) ==
    {k \in RelsOf(g, "ABOUT") :
        /\ g.rels[k].src \in MentionsWith(g, mention_id)
        /\ g.nodes[g.rels[k].dst].label = "Brand"}

\* the correction_id constraint refuses a second Correction with the same id
CorrectionIdTaken(g, mention_id, correction_id) ==
    /\ "correction_id" \in g.constraints
    /\ \/ CorrectionsWith(g, correction_id) # {} /\ CorrectionRows(g, mention_id) # {}
       \/ Cardinality(CorrectionRows(g, mention_id)) > 1


\* FOR_BRAND goes to the first Brand of the graph, not to the Mention's own
RECURSIVE CreateCorrectionsFirstBrand(_, _, _)
CreateCorrectionsFirstBrand(g, rows, correction) ==
    IF rows = {} THEN g
    ELSE LET k == Least(rows)
             g1 == [g EXCEPT !.nodes = Append(@,
                       [label |-> "Correction", id |-> correction.id,
                        content |-> correction.content, type |-> correction.type,
                        status |-> correction.status])]
             c == Len(g1.nodes)
             g2 == CreateRel(CreateRel(g1, "CORRECTS", c, g.rels[k].src),
                             "FOR_BRAND", c, Least(Labelled(g, "Brand")))
         IN CreateCorrectionsFirstBrand(g2, rows \ {k}, correction)

\* store_correction lines 171-184: one Correction per row matched; no row, no write
RECURSIVE CreateCorrections(_, _, _)
CreateCorrections(g, rows, correction) ==
    IF rows = {} THEN g
    ELSE LET k == Least(rows)
             g1 == [g EXCEPT !.nodes = Append(@,
                       [label |-> "Correction", id |-> correction.id,
                        content |-> correction.content, type |-> correction.type,
                        status |-> correction.status])]
             c == Len(g1.nodes)
             g2 == CreateRel(CreateRel(g1, "CORRECTS", c, g.rels[k].src),
                             "FOR_BRAND", c, g.rels[k].dst)
         IN CreateCorrections(g2, rows \ {k}, correction)


\* a Correction is created also when no Mention matched
StoreCorrectionOrphan(g, correction, correction_id) ==
    IF CorrectionRows(g, correction.mention_id) = {}
    THEN [g EXCEPT !.nodes = Append(@,
             [label |-> "Correction", id |-> correction_id,
              content |-> correction.content, type |-> correction.type,
              status |-> correction.status])]
    ELSE CreateCorrections(g, CorrectionRows(g, correction.mention_id),
                           [correction EXCEPT !.id = correction_id])

\* Neo4jClient.store_correction, the query
StoreCorrection(g, correction, correction_id) ==
    CreateCorrections(g, CorrectionRows(g, correction.mention_id),
                      [correction EXCEPT !.id = correction_id])

\* the nodes of a label all differ in the constrained property
Unique(g, name) ==
    CASE name = "brand_id" ->
            \A i, k \in Labelled(g, "Brand") : g.nodes[i].id = g.nodes[k].id => i = k
      [] name = "platform_name" ->
            \A i, k \in Labelled(g, "Platform") : g.nodes[i].name = g.nodes[k].name => i = k
      [] name = "mention_id" ->
            \A i, k \in Labelled(g, "Mention") : g.nodes[i].id = g.nodes[k].id => i = k
      [] name = "source_url" ->
            \A i, k \in Labelled(g, "Source") : g.nodes[i].url = g.nodes[k].url => i = k
      [] name = "correction_id" ->
            \A i, k \in Labelled(g, "Correction") : g.nodes[i].id = g.nodes[k].id => i = k

CanonicalPlatforms == <<"chatgpt", "claude", "perplexity", "gemini">>


\* the platforms are written with CREATE, not MERGE
RECURSIVE SeedPlatformsCreate(_, _)
SeedPlatformsCreate(g, names) ==
    IF names = <<>> THEN g
    ELSE SeedPlatformsCreate([g EXCEPT !.nodes = Append(@,
                                 [label |-> "Platform", name |-> Head(names)])],
                             Tail(names))

\* init_schema lines 86-88: MERGE (:Platform {name: $name}) for each name
RECURSIVE SeedPlatforms(_, _)
SeedPlatforms(g, names) ==
    IF names = <<>> THEN g
    ELSE SeedPlatforms(MergeNode(g, PlatformsWith(g, Head(names)),
                                 [label |-> "Platform", name |-> Head(names)]),
                       Tail(names))

\* the indexes init_schema asks for
IndexNames == {"mention_accuracy", "mention_date"}

\* init_schema lines 70-78: the statements in the order of the list
SchemaStatements ==
    <<"brand_id", "platform_name", "mention_id", "source_url", "correction_id",
      "mention_accuracy", "mention_date">>

\* the first statement that raises ends the loop
RECURSIVE RunStatementsStopsAtFailure(_, _, _)
RunStatementsStopsAtFailure(run, statements, failing) ==
    IF statements = <<>> THEN run
    ELSE LET name == Head(statements)
             raises == \/ name \in failing
                       \/ name \in ConstraintNames /\ ~Unique(run.graph, name)
         IN IF raises THEN [run EXCEPT !.skipped = @ \cup {name}]
            ELSE RunStatementsStopsAtFailure(
                     IF name \in ConstraintNames
                     THEN [run EXCEPT !.graph.constraints = @ \cup {name}]
                     ELSE [run EXCEPT !.graph.indexes = @ \cup {name}],
                     Tail(statements), failing)

\* init_schema lines 79-84: each statement in turn inside its own try; one that
\* raises (for a reason of the server's own, or a constraint that the stored
\* nodes already break) is logged as skipped and the loop goes on
RECURSIVE RunStatements(_, _, _)
RunStatements(run, statements, failing) ==
    IF statements = <<>> THEN run
    ELSE LET name == Head(statements)
             raises == \/ name \in failing
                       \/ name \in ConstraintNames /\ ~Unique(run.graph, name)
         IN RunStatements(
                IF raises THEN [run EXCEPT !.skipped = @ \cup {name}]
                ELSE IF name \in ConstraintNames
                THEN [run EXCEPT !.graph.constraints = @ \cup {name}]
                ELSE [run EXCEPT !.graph.indexes = @ \cup {name}],
                Tail(statements), failing)

\* the database after the loop, and the statements the log names as skipped
SchemaRun(g, failing) ==
    RunStatements([graph |-> g, skipped |-> {}], SchemaStatements, failing)

\* Neo4jClient.init_schema: the statements, then the platforms
InitSchema(g, failing) == SeedPlatforms(SchemaRun(g, failing).graph, CanonicalPlatforms)

(* ------------------------------ coroutines ---------------------------- *)

NoCoroutine ==
    [kind |-> "none", pc |-> "unused", arg |-> Unset, brand |-> Unset,
     eval_res |-> Unset, rem_res |-> Unset, gen_res |-> Unset,
     accuracy |-> Unset, severity |-> "", eval_raised |-> FALSE, exc |-> "",
     outcome |-> "none"]

\* background_tasks.add_task(fn, args..., job_id): a coroutine not started yet
QueuedCoroutine(kind, arg, brand) ==
    [NoCoroutine EXCEPT !.kind = kind, !.pc = "queued", !.arg = arg, !.brand = brand,
                        !.outcome = "pending"]

\* the coroutine suspends at an await and gives the loop back
Suspend(j, pc) ==
    /\ co' = [co EXCEPT ![j].pc = pc]
    /\ current' = {}

\* the coroutine raises into the enclosing except block
Raise(c, exc) == [c EXCEPT !.pc = "except", !.exc = exc]

\* the coroutine ends: it returned its result or re-raised the exception
Settle(c, outcome) == [c EXCEPT !.pc = "done", !.outcome = outcome]

(* ----------------------------- dispatching ---------------------------- *)

MentionDicts ==
    {Dict([id |-> Str("m1"), brand_id |-> Str("acme"), content |-> Str("claim text")]),
     Dict([brand_id |-> Str("acme"), content |-> Str("claim text")])}

MentionIds == {Str("m1")}

BrandIds == {Str("acme")}

\* str(uuid4()): an id no earlier job has
FreshJobId == dispatched + 1

\* request.mention_data or {"id": request.mention_id, "content": ..., "brand_id": ...}
RunMentionData(mention_data, mention_id) ==
    IF mention_data # NoneV THEN mention_data
    ELSE Dict([id |-> mention_id, content |-> Str("mock mention text"),
               brand_id |-> Str("mock_brand")])

\* job_id = str(uuid4()); background_tasks.add_task(fn, args..., job_id)
QueueTask(limit, kind, arg, brand) ==
    /\ dispatched < limit
    /\ co' = [co EXCEPT ![FreshJobId] = QueuedCoroutine(kind, arg, brand)]
    /\ dispatched' = dispatched + 1


\* the route writes a 'queued' record before it hands the job id back
AddTaskWritesQueued(limit, kind, arg, brand) ==
    /\ current = {}
    /\ QueueTask(limit, kind, arg, brand)
    /\ pipeline_jobs' = (FreshJobId :> [NewRecord(<<>>) EXCEPT !.status = "queued"])
                            @@ pipeline_jobs
    /\ UNCHANGED <<current, graph, calls, reply>>

AddTask(limit, kind, arg, brand) ==
    /\ current = {}
    /\ QueueTask(limit, kind, arg, brand)
    /\ UNCHANGED <<pipeline_jobs, current, graph, calls, reply>>

\* POST /pipeline/run
run_pipeline(limit) ==
    \E mention_data \in MentionDicts \cup {NoneV}, mention_id \in {NoneV} :
        AddTask(limit, "process_mention", RunMentionData(mention_data, mention_id), Unset)

\* POST /pipeline/investigate
investigate_mention(limit) ==
    \E mention_id \in MentionIds : AddTask(limit, "investigate", mention_id, Unset)

\* POST /pipeline/remediate
remediate_mention(limit) ==
    \E mention_id \in MentionIds, brand_id \in BrandIds :
        AddTask(limit, "remediate", mention_id, brand_id)

(* --------------------------- process_mention -------------------------- *)

At(j, kind, pc) == co[j].kind = kind /\ co[j].pc = pc

\* the loop picks a queued or suspended coroutine only when no coroutine runs
Resumes(j, kind, pc) == current = {} /\ At(j, kind, pc)

\* the coroutine that holds the loop goes on
Continues(j, kind, pc) == current = {j} /\ At(j, kind, pc)

\* lines 64-77: the record is written, then brand_id and content are read
pm_start(j) ==
    /\ Resumes(j, "process_mention", "queued")
    /\ pipeline_jobs' = InitRecord(pipeline_jobs, j, ProcessSteps)
    /\ co' = [co EXCEPT ![j] = IF HasGet(@.arg) THEN [@ EXCEPT !.pc = "pm_evaluate"]
                                ELSE Raise(@, "AttributeError")]
    /\ current' = {j}
    /\ UNCHANGED <<dispatched, graph, calls, reply>>

\* lines 80-82: step 1 running, await geo_client.evaluate
pm_evaluate_call(j) ==
    /\ Continues(j, "process_mention", "pm_evaluate")
    /\ pipeline_jobs' = UpdateJobStep(pipeline_jobs, j, "senso_evaluate", "running", NoneV)
    /\ Suspend(j, "pm_await_evaluate")
    /\ UNCHANGED <<dispatched, graph, calls, reply>>

\* what the try/except around an awaited call leaves in the local
OrFallback(outcome, fallback) == IF outcome = Raised THEN fallback ELSE outcome

\* lines 82-86: the call returns or raises; step 1 completed with eval_res
pm_evaluate_done(j) ==
    /\ Resumes(j, "process_mention", "pm_await_evaluate")
    /\ \E outcome \in EvaluateOutcomes :
        LET eval_res == OrFallback(outcome, EvalFallback) IN
        /\ pipeline_jobs' = UpdateJobStep(pipeline_jobs, j, "senso_evaluate", "completed", eval_res)
        /\ co' = [co EXCEPT ![j].eval_res = eval_res, ![j].pc = "pm_search",
                            ![j].eval_raised = (outcome = Raised)]
    /\ current' = {j}
    /\ UNCHANGED <<dispatched, graph, calls, reply>>

\* step 2 begins under the name of step 3
pm_search_call_wrong_step(j) ==
    /\ Continues(j, "process_mention", "pm_search")
    /\ pipeline_jobs' = UpdateJobStep(pipeline_jobs, j, "score_severity", "running", NoneV)
    /\ Suspend(j, "pm_await_search")
    /\ UNCHANGED <<dispatched, graph, calls, reply>>

\* lines 89-91: step 2 running, await tavily.search
pm_search_call(j) ==
    /\ Continues(j, "process_mention", "pm_search")
    /\ pipeline_jobs' = UpdateJobStep(pipeline_jobs, j, "tavily_search", "running", NoneV)
    /\ Suspend(j, "pm_await_search")
    /\ UNCHANGED <<dispatched, graph, calls, reply>>

\* lines 91-95: step 2 completed with search_res
pm_search_done(j) ==
    /\ Resumes(j, "process_mention", "pm_await_search")
    /\ \E outcome \in SearchOutcomes :
        pipeline_jobs' = UpdateJobStep(pipeline_jobs, j, "tavily_search", "completed",
                                       OrFallback(outcome, SearchFallback))
    /\ co' = [co EXCEPT ![j].pc = "pm_score"]
    /\ current' = {j}
    /\ UNCHANGED <<dispatched, graph, calls, reply>>

\* the scoring step bands 100 * accuracy as the Mention bands do
PipelineSeverityByScoreBands(accuracy) ==
    IF accuracy < 40 THEN "CRITICAL"
    ELSE IF accuracy < 60 THEN "HIGH"
    ELSE IF accuracy < 80 THEN "MEDIUM"
    ELSE "LOW"

\* lines 100-106, accuracy in hundredths
PipelineSeverity(accuracy) ==
    IF accuracy < 60 THEN "CRITICAL"
    ELSE IF accuracy < 80 THEN "HIGH"
    ELSE IF accuracy < 90 THEN "MEDIUM"
    ELSE "LOW"

\* line 98
pm_score_begin(j) ==
    /\ Continues(j, "process_mention", "pm_score")
    /\ pipeline_jobs' = UpdateJobStep(pipeline_jobs, j, "score_severity", "running", NoneV)
    /\ co' = [co EXCEPT ![j].pc = "pm_score_body"]
    /\ UNCHANGED <<dispatched, current, graph, calls, reply>>

\* lines 99-109: eval_res.get raises on a non-dict, the comparison on a non-number
pm_score_body(j) ==
    /\ Continues(j, "process_mention", "pm_score_body")
    /\ LET eval_res == co[j].eval_res
           accuracy == Get(eval_res, "accuracy", Num(100))
       IN IF ~HasGet(eval_res)
          THEN /\ co' = [co EXCEPT ![j] = Raise(@, "AttributeError")]
               /\ UNCHANGED pipeline_jobs
          ELSE IF ~Comparable(accuracy)
          THEN /\ co' = [co EXCEPT ![j] = Raise(@, "TypeError")]
               /\ UNCHANGED pipeline_jobs
          ELSE LET severity == PipelineSeverity(accuracy.n) IN
               /\ co' = [co EXCEPT ![j].accuracy = accuracy, ![j].severity = severity,
                                   ![j].pc = "pm_store"]
               /\ pipeline_jobs' =
                    UpdateJobStep(pipeline_jobs, j, "score_severity", "completed",
                                  Dict([accuracy |-> accuracy, severity |-> Str(severity)]))
    /\ UNCHANGED <<dispatched, current, graph, calls, reply>>

\* line 112
pm_store_begin(j) ==
    /\ Continues(j, "process_mention", "pm_store")
    /\ pipeline_jobs' = UpdateJobStep(pipeline_jobs, j, "neo4j_store", "running", NoneV)
    /\ co' = [co EXCEPT ![j].pc = "pm_store_body"]
    /\ UNCHANGED <<dispatched, current, graph, calls, reply>>

\* lines 113-119: the try block is `pass`; nothing is written to the graph
pm_store_body(j) ==
    /\ Continues(j, "process_mention", "pm_store_body")
    /\ pipeline_jobs' =
         UpdateJobStep(pipeline_jobs, j, "neo4j_store", "completed",
                       Dict([status |-> Str("stored"),
                             entity_id |-> Get(co[j].arg, "id", Str("mock_id"))]))
    /\ co' = [co EXCEPT ![j].pc = "pm_finalize"]
    /\ UNCHANGED <<dispatched, current, graph, calls, reply>>

\* the result never queues a remediation
ProcessResultNeverQueues(c) ==
    Dict([mention_id |-> Get(c.arg, "id", NoneV),
          severity |-> Str(c.severity),
          accuracy |-> c.accuracy,
          alert_created |-> Bool(c.severity \in {"HIGH", "CRITICAL"}),
          auto_remediate_queued |-> Bool(FALSE)])

\* lines 121-127
ProcessResult(c) ==
    Dict([mention_id |-> Get(c.arg, "id", NoneV),
          severity |-> Str(c.severity),
          accuracy |-> c.accuracy,
          alert_created |-> Bool(c.severity \in {"HIGH", "CRITICAL"}),
          auto_remediate_queued |-> Bool(c.severity = "CRITICAL")])

\* the record is completed and then a later line of the try block raises
pm_finalize_then_raises(j) ==
    /\ Continues(j, "process_mention", "pm_finalize")
    /\ pipeline_jobs' = CompleteWrite(pipeline_jobs, j, ProcessResult(co[j]))
    /\ co' = [co EXCEPT ![j] = Raise(@, "ValueError")]
    /\ UNCHANGED <<dispatched, current, graph, calls, reply>>

\* lines 122-134
pm_finalize(j) ==
    /\ Continues(j, "process_mention", "pm_finalize")
    /\ pipeline_jobs' = CompleteWrite(pipeline_jobs, j, ProcessResult(co[j]))
    /\ co' = [co EXCEPT ![j] = Settle(@, "returned")]
    /\ current' = {}
    /\ UNCHANGED <<dispatched, graph, calls, reply>>

\* lines 136-141: the failure is written to the record, then re-raised
pm_except(j) ==
    /\ Continues(j, "process_mention", "except")
    /\ pipeline_jobs' = FailWrite(pipeline_jobs, j, co[j].exc)
    /\ co' = [co EXCEPT ![j] = Settle(@, "raised")]
    /\ current' = {}
    /\ UNCHANGED <<dispatched, graph, calls, reply>>

process_mention(j) ==
    \/ pm_start(j)
    \/ pm_evaluate_call(j)
    \/ pm_evaluate_done(j)
    \/ pm_search_call(j)
    \/ pm_search_done(j)
    \/ pm_score_begin(j)
    \/ pm_score_body(j)
    \/ pm_store_begin(j)
    \/ pm_store_body(j)
    \/ pm_finalize(j)
    \/ pm_except(j)

(* ------------------------------ investigate --------------------------- *)

\* lines 152-161
inv_start(j) ==
    /\ Resumes(j, "investigate", "queued")
    /\ pipeline_jobs' = InitRecord(pipeline_jobs, j, InvestigateSteps)
    /\ co' = [co EXCEPT ![j].pc = "inv_extract"]
    /\ current' = {j}
    /\ UNCHANGED <<dispatched, graph, calls, reply>>

\* a step set running, then `await asyncio.sleep(...)`
StepSleeps(j, kind, pc, step_name, next_pc) ==
    /\ Continues(j, kind, pc)
    /\ pipeline_jobs' = UpdateJobStep(pipeline_jobs, j, step_name, "running", NoneV)
    /\ Suspend(j, next_pc)
    /\ UNCHANGED <<dispatched, graph, calls, reply>>

\* the sleep is over: the step is completed with its result
StepWakes(j, kind, pc, step_name, result, next_pc) ==
    /\ Resumes(j, kind, pc)
    /\ pipeline_jobs' = UpdateJobStep(pipeline_jobs, j, step_name, "completed", result)
    /\ co' = [co EXCEPT ![j].pc = next_pc]
    /\ current' = {j}
    /\ UNCHANGED <<dispatched, graph, calls, reply>>

\* lines 164-165
inv_extract_begin(j) ==
    StepSleeps(j, "investigate", "inv_extract", "tavily_extract", "inv_await_extract")

\* line 166
inv_extract_done(j) ==
    StepWakes(j, "investigate", "inv_await_extract", "tavily_extract",
              Dict([sources_extracted |-> Num(2)]), "inv_research")

\* lines 169-170
inv_research_begin(j) ==
    StepSleeps(j, "investigate", "inv_research", "yutori_research", "inv_await_research")

\* line 171
inv_research_done(j) ==
    StepWakes(j, "investigate", "inv_await_research", "yutori_research",
              Dict([insights |-> List(<<Str("Insight 1"), Str("Insight 2")>>)]), "inv_update")

\* lines 174-175
inv_update_begin(j) ==
    StepSleeps(j, "investigate", "inv_update", "neo4j_update", "inv_await_update")


\* the last step is run again whenever its sleep is over
inv_update_done_again(j) ==
    StepWakes(j, "investigate", "inv_await_update", "neo4j_update",
              Dict([nodes_added |-> Num(3), edges_added |-> Num(4)]), "inv_update")

\* line 176
inv_update_done(j) ==
    StepWakes(j, "investigate", "inv_await_update", "neo4j_update",
              Dict([nodes_added |-> Num(3), edges_added |-> Num(4)]), "inv_finalize")

InvestigateResult(c) ==
    Dict([mention_id |-> c.arg, investigation_status |-> Str("complete"),
          sources_found |-> Num(2), insights_generated |-> Num(2)])

\* lines 178-189
inv_finalize(j) ==
    /\ Continues(j, "investigate", "inv_finalize")
    /\ pipeline_jobs' = CompleteWrite(pipeline_jobs, j, InvestigateResult(co[j]))
    /\ co' = [co EXCEPT ![j] = Settle(@, "returned")]
    /\ current' = {}
    /\ UNCHANGED <<dispatched, graph, calls, reply>>

\* Nothing inside investigate's try block raises an Exception (the record writes
\* and asyncio.sleep do not), so its except block (lines 191-196) has no step.
investigate(j) ==
    \/ inv_start(j)
    \/ inv_extract_begin(j)
    \/ inv_extract_done(j)
    \/ inv_research_begin(j)
    \/ inv_research_done(j)
    \/ inv_update_begin(j)
    \/ inv_update_done(j)
    \/ inv_finalize(j)

(* ------------------------------- remediate ---------------------------- *)

\* lines 207-217
rm_start(j) ==
    /\ Resumes(j, "remediate", "queued")
    /\ pipeline_jobs' = InitRecord(pipeline_jobs, j, RemediateSteps)
    /\ co' = [co EXCEPT ![j].pc = "rm_evaluate"]
    /\ current' = {j}
    /\ UNCHANGED <<dispatched, graph, calls, reply>>

\* lines 220-222
rm_evaluate_call(j) ==
    /\ Continues(j, "remediate", "rm_evaluate")
    /\ pipeline_jobs' = UpdateJobStep(pipeline_jobs, j, "senso_evaluate_detail", "running", NoneV)
    /\ Suspend(j, "rm_await_evaluate")
    /\ UNCHANGED <<dispatched, graph, calls, reply>>

\* lines 222-225
rm_evaluate_done(j) ==
    /\ Resumes(j, "remediate", "rm_await_evaluate")
    /\ \E outcome \in EvaluateOutcomes :
        LET eval_res == OrFallback(outcome, EvalDetailFallback) IN
        /\ pipeline_jobs' = UpdateJobStep(pipeline_jobs, j, "senso_evaluate_detail",
                                          "completed", eval_res)
        /\ co' = [co EXCEPT ![j].eval_res = eval_res, ![j].pc = "rm_strategy",
                            ![j].eval_raised = (outcome = Raised)]
    /\ current' = {j}
    /\ UNCHANGED <<dispatched, graph, calls, reply>>

\* line 228
rm_strategy_begin(j) ==
    /\ Continues(j, "remediate", "rm_strategy")
    /\ pipeline_jobs' = UpdateJobStep(pipeline_jobs, j, "senso_remediate_strategy",
                                      "running", NoneV)
    /\ co' = [co EXCEPT ![j].pc = "rm_strategy_body"]
    /\ UNCHANGED <<dispatched, current, graph, calls, reply>>

\* lines 229-237: geo_client.remediate(... target_networks=...) does not bind to
\* remediate(context, optimize_for, targets), so the call raises TypeError at once
\* and the except branch supplies the strategy; no request is ever awaited
rm_strategy_body(j) ==
    /\ Continues(j, "remediate", "rm_strategy_body")
    /\ ~RemediateCallBinds
    /\ pipeline_jobs' = UpdateJobStep(pipeline_jobs, j, "senso_remediate_strategy",
                                      "completed", StrategyFallback)
    /\ co' = [co EXCEPT ![j].rem_res = StrategyFallback, ![j].pc = "rm_generate"]
    /\ UNCHANGED <<dispatched, current, graph, calls, reply>>

\* lines 240-243
rm_generate_call(j) ==
    /\ Continues(j, "remediate", "rm_generate")
    /\ pipeline_jobs' = UpdateJobStep(pipeline_jobs, j, "senso_generate_content",
                                      "running", NoneV)
    /\ Suspend(j, "rm_await_generate")
    /\ UNCHANGED <<dispatched, graph, calls, reply>>

\* lines 243-246
rm_generate_done(j) ==
    /\ Resumes(j, "remediate", "rm_await_generate")
    /\ \E outcome \in GenerateOutcomes :
        LET gen_res == OrFallback(outcome, GenerateFallback) IN
        /\ pipeline_jobs' = UpdateJobStep(pipeline_jobs, j, "senso_generate_content",
                                          "completed", gen_res)
        /\ co' = [co EXCEPT ![j].gen_res = gen_res, ![j].pc = "rm_store"]
    /\ current' = {j}
    /\ UNCHANGED <<dispatched, graph, calls, reply>>

\* lines 249-250: the step only sleeps; nothing is written to the graph
rm_store_begin(j) ==
    StepSleeps(j, "remediate", "rm_store", "neo4j_store_correction", "rm_await_store")

\* line 251
rm_store_done(j) ==
    StepWakes(j, "remediate", "rm_await_store", "neo4j_store_correction",
              Dict([status |-> Str("stored")]), "rm_finalize")

RemediateResult(c) ==
    Dict([mention_id |-> c.arg,
          strategy |-> Get(c.rem_res, "strategy", Str("Standard strategy")),
          correction_content |-> Get(c.gen_res, "generated_text", Str("")),
          status |-> Str("ready_for_review")])

\* lines 253-264: rem_res.get and gen_res.get raise on a non-dict
rm_finalize(j) ==
    /\ Continues(j, "remediate", "rm_finalize")
    /\ IF HasGet(co[j].rem_res) /\ HasGet(co[j].gen_res)
       THEN /\ pipeline_jobs' = CompleteWrite(pipeline_jobs, j, RemediateResult(co[j]))
            /\ co' = [co EXCEPT ![j] = Settle(@, "returned")]
            /\ current' = {}
       ELSE /\ co' = [co EXCEPT ![j] = Raise(@, "AttributeError")]
            /\ UNCHANGED <<pipeline_jobs, current>>
    /\ UNCHANGED <<dispatched, graph, calls, reply>>

\* lines 266-271
rm_except(j) ==
    /\ Continues(j, "remediate", "except")
    /\ pipeline_jobs' = FailWrite(pipeline_jobs, j, co[j].exc)
    /\ co' = [co EXCEPT ![j] = Settle(@, "raised")]
    /\ current' = {}
    /\ UNCHANGED <<dispatched, graph, calls, reply>>

remediate(j) ==
    \/ rm_start(j)
    \/ rm_evaluate_call(j)
    \/ rm_evaluate_done(j)
    \/ rm_strategy_begin(j)
    \/ rm_strategy_body(j)
    \/ rm_generate_call(j)
    \/ rm_generate_done(j)
    \/ rm_store_begin(j)
    \/ rm_store_done(j)
    \/ rm_finalize(j)
    \/ rm_except(j)

(* ----------------------- writers of the graph -------------------------- *)

MentionCount(g) == Cardinality(Labelled(g, "Mention"))

CorrectionCount(g) == Cardinality(Labelled(g, "Correction"))

NoReply == [op |-> "none", caller |-> "none", request |-> NoneV, outcome |-> "none",
            body |-> NoneV]

\* the call returned `body` to its caller
Returned(op, caller, request, body) ==
    [op |-> op, caller |-> caller, request |-> request, outcome |-> "returned",
     body |-> body]

\* the call raised into its caller (the graph routes answer 500)
Failed(op, caller, request, message) ==
    [op |-> op, caller |-> caller, request |-> request, outcome |-> "raised",
     body |-> Str(message)]

\* store_mention lines 158-162
StoreMentionResult(call) ==
    [neo4j_id |-> Num(call.neo4j_id), mention_id |-> call.mention_id,
     relationships_created |-> call.rels_created]

\* Neo4jClient.store_mention up to the end of its first query (lines 101-135):
\* with no source url the call returns at once, otherwise it goes on in `calls`
BeginStore(caller, mention) ==
    LET mention_id == IF mention.id # "" THEN mention.id ELSE FreshId(graph)
        g == CreateMention(graph, mention, mention_id)
        call == [caller |-> caller, mention |-> mention, mention_id |-> mention_id,
                 urls |-> mention.source_urls, rels_created |-> 2,
                 neo4j_id |-> Len(g.nodes)]
    IN IF MentionIdTaken(graph, mention_id)
       THEN /\ reply' = Failed("store_mention", caller, mention, "ConstraintError")
            /\ UNCHANGED <<graph, calls>>
       ELSE /\ graph' = g
            /\ IF mention.source_urls = <<>>
               THEN /\ reply' = Returned("store_mention", caller, mention,
                                         StoreMentionResult(call))
                    /\ UNCHANGED calls
               ELSE /\ calls' = Append(calls, call)
                    /\ UNCHANGED reply

Without(seq, i) == SubSeq(seq, 1, i - 1) \o SubSeq(seq, i + 1, Len(seq))

\* store_mention lines 136-162: the query of the next source url of a call in
\* progress; after the last one the call returns
store_mention_source ==
    /\ current = {}
    /\ \E i \in DOMAIN calls :
        LET call == calls[i]
            after == [call EXCEPT !.urls = Tail(@), !.rels_created = @ + 2]
        IN /\ graph' = LinkSource(graph, call.mention_id, call.mention.platform,
                                  Head(call.urls))
           /\ IF after.urls = <<>>
              THEN /\ calls' = Without(calls, i)
                   /\ reply' = Returned("store_mention", call.caller, call.mention,
                                        StoreMentionResult(after))
              ELSE /\ calls' = [calls EXCEPT ![i] = after]
                   /\ UNCHANGED reply
    /\ UNCHANGED <<pipeline_jobs, co, dispatched, current>>

\* StoreMentionRequest.model_dump(): every key present (id "" stands for None),
\* accuracy_score validated to lie in 0..100
StoreMentionRequests ==
    {[id |-> id, brand_id |-> brand, brand_name |-> brand, platform |-> "chatgpt",
      claim |-> "claim text", accuracy_score |-> a, severity |-> "medium",
      source_urls |-> urls] :
        id \in {"", "m1"}, brand \in {"acme", "globex"}, a \in {30},
        urls \in {<<>>, <<UrlA, UrlA>>, <<UrlA, UrlB>>}}

\* POST /graph/mentions
store_mention(limit) ==
    /\ current = {}
    /\ MentionCount(graph) < limit
    /\ \E request \in StoreMentionRequests : BeginStore("api", request)
    /\ UNCHANGED <<pipeline_jobs, co, dispatched, current>>

\* a few requests of POST /graph/mentions: an id given twice, for two brands,
\* a source cited twice, a platform name in mixed case
LinkRequests ==
    {[id |-> "m1", brand_id |-> "acme", brand_name |-> "acme", platform |-> "chatgpt",
      claim |-> "claim text", accuracy_score |-> 30, severity |-> "medium",
      source_urls |-> <<UrlA>>],
     [id |-> "m1", brand_id |-> "globex", brand_name |-> "globex", platform |-> "chatgpt",
      claim |-> "claim text", accuracy_score |-> 30, severity |-> "medium",
      source_urls |-> <<>>],
     [id |-> "", brand_id |-> "acme", brand_name |-> "acme", platform |-> "chatgpt",
      claim |-> "claim text", accuracy_score |-> 30, severity |-> "medium",
      source_urls |-> <<UrlA>>],
     [id |-> "", brand_id |-> "acme", brand_name |-> "acme", platform |-> "ChatGPT",
      claim |-> "claim text", accuracy_score |-> 30, severity |-> "medium",
      source_urls |-> <<>>]}

\* POST /graph/mentions with one of the few requests
store_mention_request(limit) ==
    /\ current = {}
    /\ MentionCount(graph) < limit
    /\ \E request \in LinkRequests : BeginStore("api", request)
    /\ UNCHANGED <<pipeline_jobs, co, dispatched, current>>

\* StoreCorrectionRequest.model_dump() (id "" stands for None)
StoreCorrectionRequests ==
    {[mention_id |-> mid, id |-> "", content |-> "correction text",
      type |-> "blog_post", status |-> "draft"] : mid \in {"m1", "m9"}}

\* store_correction lines 186-195
StoreCorrectionResult(g, correction, correction_id) ==
    [neo4j_id |-> IF CorrectionRows(g, correction.mention_id) = {} THEN NoneV
                  ELSE Num(Len(g.nodes) + 1),
     correction_id |-> correction_id]

\* POST /graph/corrections: Neo4jClient.store_correction is one query
store_correction(limit) ==
    /\ current = {}
    /\ CorrectionCount(graph) < limit
    /\ \E request \in StoreCorrectionRequests :
        LET correction_id == IF request.id # "" THEN request.id ELSE FreshId(graph) IN
        IF CorrectionIdTaken(graph, request.mention_id, correction_id)
        THEN /\ reply' = Failed("store_correction", "api", request, "ConstraintError")
             /\ UNCHANGED graph
        ELSE /\ graph' = StoreCorrection(graph, request, correction_id)
             /\ reply' = Returned("store_correction", "api", request,
                                  StoreCorrectionResult(graph, request, correction_id))
    /\ UNCHANGED <<pipeline_jobs, co, dispatched, current, calls>>

\* the statements that raise for a reason of the server's own: none, or all
SchemaFailures == {{}, ConstraintNames \cup IndexNames}

\* Neo4jClient.init_schema with the failing statements drawn from `failures`.
\* The statements are taken in one step: each is created or skipped on its own.
\* The call returns None; the body kept is what its warnings name as skipped
init_schema_failing(failures) ==
    /\ current = {}
    /\ \E failing \in failures :
          /\ graph' = InitSchema(graph, failing)
          /\ reply' = Returned("init_schema", "api", NoneV,
                               [skipped |-> SchemaRun(graph, failing).skipped])
    /\ UNCHANGED <<pipeline_jobs, co, dispatched, current, calls>>

\* POST /graph/init, and the first call of the seed scripts
init_schema == init_schema_failing(SchemaFailures)

\* monitoring.py _severity_score
severity_score(severity) ==
    CASE severity = "critical" -> 10
      [] severity = "high" -> 30
      [] severity = "medium" -> 55
      [] severity = "low" -> 80
      [] OTHER -> 50

Max(a, b) == IF a >= b THEN a ELSE b

Min(a, b) == IF a <= b THEN a ELSE b

\* yutori_webhook lines 185-189
WebhookScore(m) ==
    LET score == severity_score(Get(m, "severity", Str("medium")).s)
        accuracy == Get(m, "accuracy", NoneV)
    IN IF accuracy = Str("accurate") THEN Max(score, 80)
       ELSE IF accuracy = Str("inaccurate") THEN Min(score, 40)
       ELSE score

\* the entries of structured_result.brand_mentions (none names a source_url)
WebhookMentions ==
    {Dict([severity |-> Str(s), accuracy |-> Str(a)]) :
        s \in {"critical", "high", "medium", "low"},
        a \in {"accurate", "inaccurate", "unverified"}}
    \cup {Dict([accuracy |-> Str("unverified")])}

\* yutori_webhook lines 191-199, for a scout the receiver does not know
WebhookStore(m) ==
    [id |-> "", brand_id |-> "acme-corp", brand_name |-> "Acme Corp",
     platform |-> Get(m, "platform", Str("unknown")).s,
     claim |-> Get(m, "claim", Str("")).s,
     accuracy_score |-> WebhookScore(m),
     severity |-> Get(m, "severity", Str("medium")).s,
     source_urls |-> <<>>]

\* POST /webhooks/yutori with one mention in the body: the mention is stored,
\* then process_mention is queued on the mention as received
yutori_webhook(limit, job_limit) ==
    /\ current = {}
    /\ MentionCount(graph) < limit
    /\ \E m \in WebhookMentions :
        /\ BeginStore("webhook", WebhookStore(m))
        /\ QueueTask(job_limit, "process_mention", m, Unset)
    /\ UNCHANGED <<pipeline_jobs, current>>

\* the bands take their upper bound in
ScanSeverityInclusive(score) ==
    IF score <= 40 THEN "critical"
    ELSE IF score <= 60 THEN "high"
    ELSE IF score <= 80 THEN "medium"
    ELSE "low"

\* run_full_scan lines 434-441
ScanSeverity(score) ==
    IF score < 40 THEN "critical"
    ELSE IF score < 60 THEN "high"
    ELSE IF score < 80 THEN "medium"
    ELSE "low"

\* float(accuracy) of an evaluated search result, a number of the evaluator's
\* reply taken as it comes; 50 is also the fallback
ScanScores == {-5, 39, 40, 50, 59, 60, 69, 70, 79, 80, 95, 150}

\* run_full_scan lines 433-457, one evaluated item of the loop
run_full_scan(limit) ==
    /\ current = {}
    /\ MentionCount(graph) < limit
    /\ \E score \in ScanScores, urls \in {<<>>, <<UrlA>>} :
        BeginStore("scan",
                   [id |-> "", brand_id |-> "acme", brand_name |-> "acme",
                    platform |-> "web", claim |-> "claim text", accuracy_score |-> score,
                    severity |-> ScanSeverity(score), source_urls |-> urls])
    /\ UNCHANGED <<pipeline_jobs, co, dispatched, current>>

\* seed_neo4j.py _severity_from_score
severity_from_score(score) ==
    IF score >= 80 THEN "low"
    ELSE IF score >= 60 THEN "medium"
    ELSE IF score >= 40 THEN "high"
    ELSE "critical"

\* seed_extra_brands.py _severity
extra_severity(score) ==
    IF score >= 80 THEN "low"
    ELSE IF score >= 60 THEN "medium"
    ELSE IF score >= 40 THEN "high"
    ELSE "critical"

\* random.uniform(10, 55) for the inaccurate claims of the seed scripts
InaccurateSeedScores == {10, 39, 40, 55}

\* a mention the seed scripts build with a fresh uuid as its id
SeedMention(score, severity) ==
    [id |-> "", brand_id |-> "acme-corp", brand_name |-> "Acme Corp",
     platform |-> "chatgpt", claim |-> "claim text", accuracy_score |-> score,
     severity |-> severity, source_urls |-> <<UrlA>>]

\* the seed scripts store after their init_schema call has returned
SchemaInitialized(g) ==
    \A n \in DOMAIN CanonicalPlatforms : PlatformsWith(g, CanonicalPlatforms[n]) # {}

\* a seed script stores one mention of the list it built
SeedStore(limit, score, severity) ==
    /\ SchemaInitialized(graph)
    /\ MentionCount(graph) < limit
    /\ BeginStore("seed", SeedMention(score, severity))
    /\ UNCHANGED <<pipeline_jobs, co, dispatched, current>>

\* seed_neo4j.py lines 119-132, 153-185 and 201-204: a mention of an accurate,
\* a padding or a critical claim, its severity written out
seed_neo4j_fixed(limit) ==
    \/ \E score \in {70, 75, 98} : SeedStore(limit, score, "low")
    \/ \E score \in {2, 20} : SeedStore(limit, score, "critical")

\* seed_neo4j.py lines 136-149 and 201-204: a mention of an inaccurate claim
seed_neo4j_derived(limit) ==
    \E score \in InaccurateSeedScores :
        SeedStore(limit, score, severity_from_score(score))

\* seed_extra_brands.py lines 144-156 and 195-196: a mention of an inaccurate claim
seed_extra_brands_derived(limit) ==
    \E score \in InaccurateSeedScores :
        SeedStore(limit, score, extra_severity(score))

(* ------------------------------- polling ------------------------------ *)

\* what GET /v1/browsing/tasks/{id} and GET /v1/research/tasks/{id} can give
\* _request: a dict with a status that is final or not, a dict without a
\* status, a JSON value that is no dict, or an exception (raise_for_status)
PollPayloads ==
    {Dict([status |-> Str("queued")]),
     Dict([status |-> Str("running")]),
     Dict([status |-> Str("succeeded")]),
     Dict([status |-> Str("failed")]),
     Dict(<<>>),
     List(<<>>)}

PollOutcomes == PollPayloads \cup {Raised}

\* the timeouts and intervals a poll is called with, in ticks of the clock
PollTimeouts == 0..MaxPollTimeout

PollIntervals == 1..MaxPollInterval

\* the ticks an awaited request takes, and the ticks a sleep overruns
RequestTicks == {0, 1}

SleepOverrun == {0, 1}

\* a call of poll_browse_result or poll_research_result at its first loop test
\* (start = time.monotonic() just read: nothing has elapsed)
PollCall(op, timeout, interval) ==
    [op |-> op, task_id |-> "t1", timeout |-> timeout, interval |-> interval,
     elapsed |-> 0, pc |-> "test"]

PollRequest(call) ==
    Dict([task_id |-> Str(call.task_id), timeout |-> Num(call.timeout),
          interval |-> Num(call.interval)])

\* the call ends: it leaves `calls`, and `reply` holds what its caller gets
PollEnds(i, outcome) ==
    /\ calls' = Without(calls, i)
    /\ reply' = outcome

\* a loop test that gives up one interval before the timeout
PollTestRaisesEarly(op) ==
    /\ \E i \in DOMAIN calls :
          /\ calls[i].op = op /\ calls[i].pc = "test"
          /\ IF calls[i].elapsed + calls[i].interval < calls[i].timeout
             THEN /\ calls' = [calls EXCEPT ![i].pc = "await_get"]
                  /\ UNCHANGED reply
             ELSE PollEnds(i, Failed(op, "caller", PollRequest(calls[i]), "TimeoutError"))
    /\ UNCHANGED <<pipeline_jobs, co, dispatched, current, graph>>

\* lines 218 and 265: `while time.monotonic() - start < timeout`, else line 224
\* or 271, raise TimeoutError
PollTest(op) ==
    /\ \E i \in DOMAIN calls :
          /\ calls[i].op = op /\ calls[i].pc = "test"
          /\ IF calls[i].elapsed < calls[i].timeout
             THEN /\ calls' = [calls EXCEPT ![i].pc = "await_get"]
                  /\ UNCHANGED reply
             ELSE PollEnds(i, Failed(op, "caller", PollRequest(calls[i]), "TimeoutError"))
    /\ UNCHANGED <<pipeline_jobs, co, dispatched, current, graph>>

\* lines 219-223 and 266-270: the awaited request returns or raises; the result
\* is returned if its status is final, else the call sleeps
PollGetDone(op) ==
    /\ \E i \in DOMAIN calls :
          /\ calls[i].op = op /\ calls[i].pc = "await_get"
          /\ \E result \in PollOutcomes, ticks \in RequestTicks :
                IF result = Raised
                THEN PollEnds(i, Failed(op, "caller", PollRequest(calls[i]), "HTTPError"))
                ELSE IF ~HasGet(result)
                THEN PollEnds(i, Failed(op, "caller", PollRequest(calls[i]),
                                        "AttributeError"))
                ELSE IF Get(result, "status", Str("")) \in {Str("succeeded"), Str("failed")}
                THEN PollEnds(i, Returned(op, "caller", PollRequest(calls[i]), result))
                ELSE /\ calls' = [calls EXCEPT ![i].pc = "await_sleep",
                                               ![i].elapsed = @ + ticks]
                     /\ UNCHANGED reply
    /\ UNCHANGED <<pipeline_jobs, co, dispatched, current, graph>>

\* lines 223 and 270: asyncio.sleep(interval) is over, after `interval` or more
PollSleepDone(op) ==
    /\ \E i \in DOMAIN calls :
          /\ calls[i].op = op /\ calls[i].pc = "await_sleep"
          /\ \E late \in SleepOverrun :
                calls' = [calls EXCEPT ![i].pc = "test",
                                       ![i].elapsed = @ + calls[i].interval + late]
    /\ UNCHANGED <<pipeline_jobs, co, dispatched, current, graph, reply>>

\* YutoriClient.poll_browse_result
poll_browse_result ==
    \/ PollTest("poll_browse_result")
    \/ PollGetDone("poll_browse_result")
    \/ PollSleepDone("poll_browse_result")

\* YutoriClient.poll_research_result
poll_research_result ==
    \/ PollTest("poll_research_result")
    \/ PollGetDone("poll_research_result")
    \/ PollSleepDone("poll_research_result")

(* ----------------------- readers of the graph -------------------------- *)

\* a fraction num/den, den > 0
Rat(num, den) == <<num, den>>

RatAdd(x, y) == Rat(x[1] * y[2] + y[1] * x[2], x[2] * y[2])

RatTimes(x, n) == Rat(x[1] * n, x[2])

\* round(num/den, 1), in tenths; a tie goes to the even tenth
Round1(num, den) ==
    LET q == (10 * num) \div den
        r == (10 * num) % den
    IN IF 2 * r < den THEN q
       ELSE IF 2 * r > den THEN q + 1
       ELSE IF q % 2 = 0 THEN q ELSE q + 1

\* get_brand_health lines 202-203: the rows (ABOUT edge, FOUND_ON edge) of a
\* Mention about the Brand and the Platform it was found on
HealthRows(g, brand_id) ==
    {row \in RelsOf(g, "ABOUT") \X RelsOf(g, "FOUND_ON") :
        /\ g.nodes[g.rels[row[1]].src].label = "Mention"
        /\ g.rels[row[1]].dst \in BrandsWith(g, brand_id)
        /\ g.rels[row[2]].src = g.rels[row[1]].src
        /\ g.nodes[g.rels[row[2]].dst].label = "Platform"}

\* the Mention node of a row
RowMention(g, row) == g.nodes[g.rels[row[1]].src]

\* sum(m.accuracy_score) over rows
RECURSIVE SumScores(_, _)
SumScores(g, rows) ==
    IF rows = {} THEN 0
    ELSE LET row == FirstRow(rows)
         IN RowMention(g, row).accuracy_score + SumScores(g, rows \ {row})

\* get_brand_health lines 204-208: one record per platform name
HealthRecords(g, brand_id) ==
    LET rows == HealthRows(g, brand_id)
        name(row) == g.nodes[g.rels[row[2]].dst].name
    IN {LET group == {row \in rows : name(row) = platform}
        IN [platform |-> platform,
            mentions |-> Cardinality(group),
            avg_accuracy |-> Rat(SumScores(g, group), Cardinality(group)),
            accurate_count |-> Cardinality({row \in group : RowMention(g, row).is_accurate}),
            threats |-> Cardinality({row \in group :
                            RowMention(g, row).severity \in {"high", "critical"}})] :
        platform \in {name(row) : row \in rows}}

\* a total of the loop of lines 218-226 over one integer field
RECURSIVE Total(_, _)
Total(records, field) ==
    IF records = {} THEN 0
    ELSE LET r == CHOOSE r \in records : TRUE
         IN r[field] + Total(records \ {r}, field)

\* the overall accuracy is the plain mean of the platform averages
RECURSIVE PlainSum(_)
PlainSum(records) ==
    IF records = {} THEN Rat(0, 1)
    ELSE LET r == CHOOSE r \in records : TRUE
         IN RatAdd(r.avg_accuracy, PlainSum(records \ {r}))

OverallPlainMean(records) ==
    IF records = {} THEN 0
    ELSE Round1(PlainSum(records)[1], PlainSum(records)[2] * Cardinality(records))

\* line 226: weighted_sum += (r["avg_accuracy"] or 0) * count
RECURSIVE WeightedSum(_)
WeightedSum(records) ==
    IF records = {} THEN Rat(0, 1)
    ELSE LET r == CHOOSE r \in records : TRUE
         IN RatAdd(RatTimes(r.avg_accuracy, r.mentions), WeightedSum(records \ {r}))


\* a brand without mentions is given the full score
OverallFullWithoutMentions(records) ==
    IF Total(records, "mentions") = 0 THEN 1000
    ELSE Round1(WeightedSum(records)[1],
                WeightedSum(records)[2] * Total(records, "mentions"))

\* line 228: round(weighted_sum / total_mentions, 1) if total_mentions else 0
Overall(records) ==
    IF Total(records, "mentions") = 0 THEN 0
    ELSE Round1(WeightedSum(records)[1],
                WeightedSum(records)[2] * Total(records, "mentions"))

\* Neo4jClient.get_brand_health; accuracies in tenths
BrandHealth(g, brand_id) ==
    LET records == HealthRecords(g, brand_id)
    IN [overall_accuracy |-> Overall(records),
        total_mentions |-> Total(records, "mentions"),
        accurate_mentions |-> Total(records, "accurate_count"),
        threats |-> Total(records, "threats"),
        by_platform |-> {[platform |-> r.platform,
                          accuracy |-> Round1(r.avg_accuracy[1], r.avg_accuracy[2]),
                          mentions |-> r.mentions] : r \in records}]

\* the brand ids the read routes are asked for
QueriedBrands == {"acme", "globex", "initech"}

\* GET /graph/brand/{brand_id}/health
get_brand_health ==
    /\ current = {}
    /\ \E brand_id \in QueriedBrands :
          reply' = Returned("get_brand_health", "api", Str(brand_id),
                            BrandHealth(graph, brand_id))
    /\ UNCHANGED <<pipeline_jobs, co, dispatched, current, graph, calls>>

\* OPTIONAL MATCH: the matches, or one null (written 0) when there is none
Optional(matches) == IF matches = {} THEN {0} ELSE matches

\* the nodes at the far end of the relationships of a type that leave `src`
Targets(g, type, src, label) ==
    {g.rels[k].dst : k \in {k \in RelsOf(g, type) :
                              g.rels[k].src = src /\ g.nodes[g.rels[k].dst].label = label}}

\* the nodes at the near end of the relationships of a type that reach `dst`
Origins(g, type, dst, label) ==
    {g.rels[k].src : k \in {k \in RelsOf(g, type) :
                              g.rels[k].dst = dst /\ g.nodes[g.rels[k].src].label = label}}

\* get_brand_network lines 269-277: the Mentions, Platforms, Sources and
\* Corrections collected for the Brand
NetworkMentions(g, brand_id) ==
    UNION {Origins(g, "ABOUT", b, "Mention") : b \in BrandsWith(g, brand_id)}

NetworkPlatforms(g, brand_id) ==
    UNION {Targets(g, "FOUND_ON", m, "Platform") : m \in NetworkMentions(g, brand_id)}

NetworkSources(g, brand_id) ==
    UNION {Targets(g, "SOURCED_FROM", m, "Source") : m \in NetworkMentions(g, brand_id)}

NetworkCorrections(g, brand_id) ==
    UNION {Origins(g, "CORRECTS", m, "Correction") : m \in NetworkMentions(g, brand_id)}

\* lines 286-343: the ids and types of the nodes put out
NetworkNodes(g, brand_id) ==
    {[id |-> "brand-" \o g.nodes[b].id, type |-> "Brand"] : b \in BrandsWith(g, brand_id)}
    \cup {[id |-> "mention-" \o g.nodes[m].id, type |-> "Mention"] :
            m \in NetworkMentions(g, brand_id)}
    \cup {[id |-> "platform-" \o g.nodes[p].name, type |-> "Platform"] :
            p \in NetworkPlatforms(g, brand_id)}
    \cup {[id |-> "source-" \o g.nodes[s].url, type |-> "Source"] :
            s \in NetworkSources(g, brand_id)}
    \cup {[id |-> "correction-" \o g.nodes[c].id, type |-> "Correction"] :
            c \in NetworkCorrections(g, brand_id)}

Edge(source, target, type) == [source |-> source, target |-> target, type |-> type]

\* lines 297-310: one ABOUT edge for each Mention node collected
RECURSIVE AboutEdges(_, _, _)
AboutEdges(g, mentions, brand_id) ==
    IF mentions = {} THEN <<>>
    ELSE <<Edge("mention-" \o g.nodes[Least(mentions)].id, "brand-" \o brand_id, "ABOUT")>>
         \o AboutEdges(g, mentions \ {Least(mentions)}, brand_id)

\* lines 345-354: the rows (m, p, s, p2, c) of the relationship query, as nodes
RelRows(g, brand_id) ==
    UNION {UNION {UNION {UNION {
        {<<m, p, s, p2, c>> :
            c \in Optional(IF m = 0 THEN {} ELSE Origins(g, "CORRECTS", m, "Correction"))} :
            p2 \in Optional(IF s = 0 THEN {} ELSE Targets(g, "FEEDS", s, "Platform"))} :
            s \in Optional(IF m = 0 THEN {} ELSE Targets(g, "SOURCED_FROM", m, "Source"))} :
            p \in Optional(IF m = 0 THEN {} ELSE Targets(g, "FOUND_ON", m, "Platform"))} :
            m \in Optional(NetworkMentions(g, brand_id))}

\* the rows in the order of the traversal
RowBefore(r, q) ==
    \E k \in 1..6 : (\A i \in 1..(k - 1) : r[i] = q[i]) /\ (k = 6 \/ r[k] < q[k])

\* the value a row returns for a node property; a null stays null (written "")
RowValue(g, node, key) == IF node = 0 THEN "" ELSE g.nodes[node][key]

\* lines 356-397: the loop over the rows; seen_edges holds the keys of the edges
\* put out so far, pairs of strings without the edge's type
RECURSIVE EmitEdges(_, _, _, _)
EmitEdges(g, rows, edges, seen_edges) ==
    IF rows = {} THEN edges
    ELSE LET r == CHOOSE r \in rows : \A q \in rows : RowBefore(r, q)
             mid == RowValue(g, r[1], "id")
             pname == RowValue(g, r[2], "name")
             surl == RowValue(g, r[3], "url")
             p2name == RowValue(g, r[4], "name")
             cid == RowValue(g, r[5], "id")
             key_found == <<"mention-" \o mid, pname>>
             key_src == <<"mention-" \o mid, surl>>
             key_feeds == <<surl, p2name>>
             key_corr == <<cid, mid>>
             found == mid # "" /\ pname # "" /\ key_found \notin seen_edges
             seen1 == IF found THEN seen_edges \cup {key_found} ELSE seen_edges
             src == mid # "" /\ surl # "" /\ key_src \notin seen1
             seen2 == IF src THEN seen1 \cup {key_src} ELSE seen1
             feeds == surl # "" /\ p2name # "" /\ key_feeds \notin seen2
             seen3 == IF feeds THEN seen2 \cup {key_feeds} ELSE seen2
             corr == cid # "" /\ mid # "" /\ key_corr \notin seen3
             seen4 == IF corr THEN seen3 \cup {key_corr} ELSE seen3
             e1 == IF found
                   THEN <<Edge("mention-" \o mid, "platform-" \o pname, "FOUND_ON")>> ELSE <<>>
             e2 == IF src
                   THEN <<Edge("mention-" \o mid, "source-" \o surl, "SOURCED_FROM")>> ELSE <<>>
             e3 == IF feeds
                   THEN <<Edge("source-" \o surl, "platform-" \o p2name, "FEEDS")>> ELSE <<>>
             e4 == IF corr
                   THEN <<Edge("correction-" \o cid, "mention-" \o mid, "CORRECTS")>> ELSE <<>>
         IN EmitEdges(g, rows \ {r}, edges \o e1 \o e2 \o e3 \o e4, seen4)

\* Neo4jClient.get_brand_network
BrandNetwork(g, brand_id) ==
    IF BrandsWith(g, brand_id) = {} THEN [nodes |-> {}, edges |-> <<>>]
    ELSE [nodes |-> NetworkNodes(g, brand_id),
          edges |-> EmitEdges(g, RelRows(g, brand_id),
                              AboutEdges(g, NetworkMentions(g, brand_id), brand_id), {})]


\* the first query binds the Brand with MERGE: a brand asked about for the first
\* time gets a node
get_brand_network_merging ==
    /\ current = {}
    /\ \E brand_id \in QueriedBrands :
          /\ graph' = MergeNode(graph, BrandsWith(graph, brand_id),
                                [label |-> "Brand", id |-> brand_id, name |-> brand_id])
          /\ reply' = Returned("get_brand_network", "api", Str(brand_id),
                               BrandNetwork(graph', brand_id))
    /\ UNCHANGED <<pipeline_jobs, co, dispatched, current, calls>>

\* GET /graph/brand/{brand_id}/network
get_brand_network ==
    /\ current = {}
    /\ \E brand_id \in QueriedBrands :
          reply' = Returned("get_brand_network", "api", Str(brand_id),
                            BrandNetwork(graph, brand_id))
    /\ UNCHANGED <<pipeline_jobs, co, dispatched, current, graph, calls>>

\* the values `limit` takes in the requests (the routes' defaults are 50 and 20)
Limits == {0, 1, 2, 20}

\* the sequences a query with ORDER BY and LIMIT can return: `limit` rows of
\* `records` (all of them if there are fewer) in ascending order of Key, no row
\* left out that sorts before a row returned; rows of equal Key in any order
Ordered(records, limit, Key(_)) ==
    LET k == Min(limit, Cardinality(records))
    IN {rows \in [1..k -> records] :
          /\ \A i, h \in 1..k : i < h => rows[i] # rows[h] /\ Key(rows[i]) <= Key(rows[h])
          /\ \A r \in records : \A i \in 1..k :
                Key(r) < Key(rows[i]) => \E h \in 1..k : rows[h] = r}

\* get_brand_threats lines 117-123: one record per Mention about the Brand and
\* Platform it was found on; the WHERE belongs to the OPTIONAL MATCH, so it
\* decides which Sources are collected, not which Mentions are returned
ThreatRecords(g, brand_id) ==
    {[id |-> g.nodes[row[1]].id,
      accuracy_score |-> g.nodes[row[1]].accuracy_score,
      severity |-> g.nodes[row[1]].severity,
      platform |-> g.nodes[row[2]].name,
      source_urls |-> {g.nodes[s].url :
                         s \in {s \in Targets(g, "SOURCED_FROM", row[1], "Source") :
                                   g.nodes[row[1]].accuracy_score < 70}}] :
        row \in UNION {{<<m, p>> : p \in Targets(g, "FOUND_ON", m, "Platform")} :
                          m \in NetworkMentions(g, brand_id)}}

\* str.title() on the platform names in use
Title(word) ==
    CASE word = "chatgpt" -> "Chatgpt"
      [] word = "ChatGPT" -> "Chatgpt"
      [] word = "claude" -> "Claude"
      [] word = "perplexity" -> "Perplexity"
      [] word = "gemini" -> "Gemini"
      [] word = UrlA -> "Https://Example.Com/A"
      [] word = UrlB -> "Https://Other.Org/B"
      [] OTHER -> word

\* lines 129-142: the threat made of a record; source_url is the first of the
\* collected urls, which come in no fixed order
Threat(r, source_url) ==
    [id |-> r.id, severity |-> r.severity, platform |-> Title(r.platform),
     accuracy_score |-> r.accuracy_score, status |-> "open", source_url |-> source_url]

ThreatScore(r) == r.accuracy_score

\* collect(DISTINCT s.url), then `[0] if r.get("source_urls") else ""`
FirstUrls(r) == IF r.source_urls = {} THEN {""} ELSE r.source_urls

\* the bodies GET /graph/brand/{brand_id}/threats can answer
BrandThreats(g, brand_id, limit) ==
    UNION {{[threats |-> threats, total |-> Len(threats)] :
              threats \in {t \in [DOMAIN rows -> UNION {{Threat(rows[i], u) : u \in FirstUrls(rows[i])} :
                                                          i \in DOMAIN rows}] :
                              \A i \in DOMAIN rows :
                                  t[i] \in {Threat(rows[i], u) : u \in FirstUrls(rows[i])}}} :
           rows \in Ordered(ThreatRecords(g, brand_id), limit, ThreatScore)}

\* a request of a read route that takes a limit
LimitRequest(brand_id, limit) == Dict([brand_id |-> Str(brand_id), limit |-> Num(limit)])

\* GET /graph/brand/{brand_id}/threats
get_brand_threats ==
    /\ current = {}
    /\ \E brand_id \in QueriedBrands, limit \in Limits :
          \E body \in BrandThreats(graph, brand_id, limit) :
              reply' = Returned("get_brand_threats", "api", LimitRequest(brand_id, limit), body)
    /\ UNCHANGED <<pipeline_jobs, co, dispatched, current, graph, calls>>


\* mentions_fed is count(m): one for every row (Mention, Platform fed)
SourceRecordsCountRows(g, brand_id) ==
    LET feeders(s) == {m \in Origins(g, "SOURCED_FROM", s, "Mention") :
                          /\ m \in NetworkMentions(g, brand_id)
                          /\ g.nodes[m].accuracy_score < 70}
        cited == {s \in Labelled(g, "Source") : feeders(s) # {}}
    IN {[url |-> g.nodes[s].url,
         domain |-> g.nodes[s].domain,
         mentions_fed |-> Cardinality(feeders(s) \X Optional(Targets(g, "FEEDS", s, "Platform"))),
         platforms_affected |->
             {g.nodes[p].name : p \in Targets(g, "FEEDS", s, "Platform")}] :
        s \in cited}

\* get_brand_sources lines 243-249: one record per (url, domain) of the Sources
\* that a Mention about the Brand with accuracy_score < 70 was sourced from;
\* platforms_affected is a list in no fixed order, kept as the set of its names
SourceRecords(g, brand_id) ==
    LET feeders(s) == {m \in Origins(g, "SOURCED_FROM", s, "Mention") :
                          /\ m \in NetworkMentions(g, brand_id)
                          /\ g.nodes[m].accuracy_score < 70}
        cited == {s \in Labelled(g, "Source") : feeders(s) # {}}
    IN {LET group == {s \in cited : <<g.nodes[s].url, g.nodes[s].domain>> = key}
        IN [url |-> key[1],
            domain |-> key[2],
            mentions_fed |-> Cardinality(UNION {feeders(s) : s \in group}),
            platforms_affected |->
                {g.nodes[p].name :
                    p \in UNION {Targets(g, "FEEDS", s, "Platform") : s \in group}}] :
        key \in {<<g.nodes[s].url, g.nodes[s].domain>> : s \in cited}}

\* ORDER BY mentions_fed DESC
SourceRank(r) == 0 - r.mentions_fed

\* Neo4jClient.get_brand_sources: the lists it can return
BrandSources(g, brand_id, limit) == Ordered(SourceRecords(g, brand_id), limit, SourceRank)

\* GET /graph/brand/{brand_id}/sources
get_brand_sources ==
    /\ current = {}
    /\ \E brand_id \in QueriedBrands, limit \in Limits :
          \E sources \in BrandSources(graph, brand_id, limit) :
              reply' = Returned("get_brand_sources", "api", LimitRequest(brand_id, limit),
                                [sources |-> sources])
    /\ UNCHANGED <<pipeline_jobs, co, dispatched, current, graph, calls>>

\* the source queries of a call, one after the other
RECURSIVE LinkAll(_, _, _, _)
LinkAll(g, mention_id, platform, urls) ==
    IF urls = <<>> THEN g
    ELSE LinkAll(LinkSource(g, mention_id, platform, Head(urls)), mention_id, platform,
                 Tail(urls))

\* Neo4jClient.store_mention from its first query to its return, no other
\* call in between; a call the mention_id constraint refuses writes nothing
StoredMention(g, mention) ==
    LET mention_id == IF mention.id # "" THEN mention.id ELSE FreshId(g)
    IN IF MentionIdTaken(g, mention_id) THEN g
       ELSE LinkAll(CreateMention(g, mention, mention_id), mention_id, mention.platform,
                    mention.source_urls)

\* the graph after a sequence of store_mention calls
RECURSIVE StoredAll(_, _)
StoredAll(g, mentions) ==
    IF mentions = <<>> THEN g
    ELSE StoredAll(StoredMention(g, Head(mentions)), Tail(mentions))

Repeat(x, n) == [i \in 1..n |-> x]

\* a request of POST /graph/mentions without source urls
ScoredRequest(brand, platform, score) ==
    [id |-> "", brand_id |-> brand, brand_name |-> brand, platform |-> platform,
     claim |-> "claim text", accuracy_score |-> score, severity |-> ScanSeverity(score),
     source_urls |-> <<>>]

\* graphs of up to MaxHealthMentions mentions: some that score 90 and some that
\* score 85 on chatgpt, some that score 50 on claude, some of another brand
HealthGraphs ==
    {StoredAll(EmptyGraph,
               Repeat(ScoredRequest("acme", "chatgpt", 90), n[1])
               \o Repeat(ScoredRequest("acme", "chatgpt", 85), n[2])
               \o Repeat(ScoredRequest("acme", "claude", 50), n[3])
               \o Repeat(ScoredRequest("globex", "claude", 70), n[4])) :
        n \in {n \in [1..4 -> 0..MaxHealthMentions] :
                  n[1] + n[2] + n[3] + n[4] <= MaxHealthMentions}}

\* requests of POST /graph/mentions that cite sources: a fresh id, a repeated
\* id, another brand on another platform, a platform named like a url
NetworkRequests ==
    {[id |-> "", brand_id |-> "acme", brand_name |-> "acme", platform |-> "chatgpt",
      claim |-> "claim text", accuracy_score |-> 30, severity |-> "medium",
      source_urls |-> <<UrlA>>],
     [id |-> "m1", brand_id |-> "acme", brand_name |-> "acme", platform |-> "chatgpt",
      claim |-> "claim text", accuracy_score |-> 30, severity |-> "medium",
      source_urls |-> <<UrlA, UrlB>>],
     [id |-> "", brand_id |-> "globex", brand_name |-> "globex", platform |-> "claude",
      claim |-> "claim text", accuracy_score |-> 30, severity |-> "medium",
      source_urls |-> <<UrlA>>],
     [id |-> "", brand_id |-> "acme", brand_name |-> "acme", platform |-> UrlA,
      claim |-> "claim text", accuracy_score |-> 30, severity |-> "medium",
      source_urls |-> <<UrlA>>]}

\* the graph after a store_correction call on mention m1, if it is asked for
Corrected(g, asked) ==
    LET request == [mention_id |-> "m1", id |-> "", content |-> "correction text",
                    type |-> "blog_post", status |-> "draft"]
    IN IF asked /\ ~CorrectionIdTaken(g, "m1", FreshId(g))
       THEN StoreCorrection(g, request, FreshId(g)) ELSE g

\* graphs of up to MaxNetworkMentions mentions that cite sources, with or
\* without a correction, on a database without constraints
NetworkGraphs ==
    {Corrected(StoredAll(EmptyGraph, mentions), asked) :
        mentions \in UNION {[1..k -> NetworkRequests] : k \in 0..MaxNetworkMentions},
        asked \in BOOLEAN}

\* requests of POST /graph/mentions for the rankings: inaccurate and accurate
\* mentions of one brand and an inaccurate mention of another, citing sources
RankedRequests ==
    {[id |-> "", brand_id |-> "acme", brand_name |-> "acme", platform |-> "chatgpt",
      claim |-> "claim text", accuracy_score |-> 30, severity |-> ScanSeverity(30),
      source_urls |-> <<UrlA>>],
     [id |-> "", brand_id |-> "acme", brand_name |-> "acme", platform |-> "claude",
      claim |-> "claim text", accuracy_score |-> 69, severity |-> ScanSeverity(69),
      source_urls |-> <<UrlA, UrlB>>],
     [id |-> "", brand_id |-> "acme", brand_name |-> "acme", platform |-> "chatgpt",
      claim |-> "claim text", accuracy_score |-> 70, severity |-> ScanSeverity(70),
      source_urls |-> <<UrlB>>],
     [id |-> "", brand_id |-> "acme", brand_name |-> "acme", platform |-> "gemini",
      claim |-> "claim text", accuracy_score |-> 90, severity |-> ScanSeverity(90),
      source_urls |-> <<>>],
     [id |-> "", brand_id |-> "globex", brand_name |-> "globex", platform |-> "chatgpt",
      claim |-> "claim text", accuracy_score |-> 30, severity |-> ScanSeverity(30),
      source_urls |-> <<UrlB>>]}

\* graphs of up to MaxRankedMentions of these mentions
RankedGraphs ==
    {StoredAll(EmptyGraph, mentions) :
        mentions \in UNION {[1..k -> RankedRequests] : k \in 0..MaxRankedMentions}}

\* graphs of up to MaxSchemaMentions mentions stored before any init_schema
\* call, all under one id: with two of them the mention ids are not unique
SchemaGraphs ==
    {StoredAll(EmptyGraph,
               Repeat([id |-> "m1", brand_id |-> "acme", brand_name |-> "acme",
                       platform |-> "chatgpt", claim |-> "claim text",
                       accuracy_score |-> 30, severity |-> "medium",
                       source_urls |-> <<UrlA>>], k)) :
        k \in 0..MaxSchemaMentions}

(* ------------------------------ the system ---------------------------- *)

Init ==
    /\ pipeline_jobs = <<>>
    /\ co = [j \in Jobs |-> NoCoroutine]
    /\ dispatched = 0
    /\ current = {}
    /\ graph = EmptyGraph
    /\ calls = <<>>
    /\ reply = NoReply

\* the routes that dispatch a workflow, for at most `limit` job ids
Dispatch(limit) ==
    \/ run_pipeline(limit)
    \/ investigate_mention(limit)
    \/ remediate_mention(limit)

\* the event loop runs a step of some job's coroutine
RunJob ==
    \/ \E j \in Jobs : process_mention(j)
    \/ \E j \in Jobs : investigate(j)
    \/ \E j \in Jobs : remediate(j)

\* the workflows, several jobs at a time (no workflow reads or writes the graph)
Next ==
    \/ Dispatch(MaxJobs)
    \/ RunJob

Spec == Init /\ [][Next]_vars

\* one workflow at a time
SoloNext ==
    \/ Dispatch(MaxSoloJobs)
    \/ RunJob

SoloSpec == Init /\ [][SoloNext]_vars

\* the event loop resumes every coroutine that is ready: a queued task is
\* started, an awaited collaborator or sleep call returns or raises
JobFairness ==
    \A j \in Jobs :
        /\ WF_vars(process_mention(j))
        /\ WF_vars(investigate(j))
        /\ WF_vars(remediate(j))

\* the workflows under that scheduling
LiveSpec == Init /\ [][Next]_vars /\ JobFairness

\* the graph routes
GraphNext ==
    \/ init_schema
    \/ store_mention(MaxGraphMentions)
    \/ store_mention_source
    \/ store_correction(MaxGraphCorrections)

GraphSpec == Init /\ [][GraphNext]_vars

\* every writer of Mention nodes
IngestNext ==
    \/ init_schema
    \/ yutori_webhook(MaxIngested, MaxSoloJobs)
    \/ run_full_scan(MaxIngested)
    \/ seed_neo4j_fixed(MaxIngested)
    \/ seed_neo4j_derived(MaxIngested)
    \/ seed_extra_brands_derived(MaxIngested)
    \/ store_mention_request(MaxIngested)
    \/ store_mention_source

IngestSpec == Init /\ [][IngestNext]_vars

\* one workflow next to the graph routes
SystemNext ==
    \/ Dispatch(MaxSoloJobs)
    \/ RunJob
    \/ store_mention(MaxMentions)
    \/ store_mention_source
    \/ store_correction(MaxCorrections)

SystemSpec == Init /\ [][SystemNext]_vars

\* the graph routes on a few requests
LinkNext ==
    \/ init_schema
    \/ store_mention_request(MaxLinkMentions)
    \/ store_mention_source
    \/ store_correction(MaxLinkCorrections)

LinkSpec == Init /\ [][LinkNext]_vars

\* a database that sequences of store calls have filled
ReadInit ==
    /\ pipeline_jobs = <<>>
    /\ co = [j \in Jobs |-> NoCoroutine]
    /\ dispatched = 0
    /\ current = {}
    /\ graph \in HealthGraphs \cup NetworkGraphs
    /\ calls = <<>>
    /\ reply = NoReply

\* the read routes
ReadNext ==
    \/ get_brand_health
    \/ get_brand_network

ReadSpec == ReadInit /\ [][ReadNext]_vars

\* a database that store calls have filled with mentions that cite sources
QueryInit ==
    /\ pipeline_jobs = <<>>
    /\ co = [j \in Jobs |-> NoCoroutine]
    /\ dispatched = 0
    /\ current = {}
    /\ graph \in RankedGraphs \cup NetworkGraphs
    /\ calls = <<>>
    /\ reply = NoReply

\* the four read routes of a brand
QueryNext ==
    \/ get_brand_health
    \/ get_brand_sources
    \/ get_brand_threats
    \/ get_brand_network

QuerySpec == QueryInit /\ [][QueryNext]_vars

\* a database, empty or filled by store calls, that has no schema yet
SchemaInit ==
    /\ pipeline_jobs = <<>>
    /\ co = [j \in Jobs |-> NoCoroutine]
    /\ dispatched = 0
    /\ current = {}
    /\ graph \in SchemaGraphs
    /\ calls = <<>>
    /\ reply = NoReply

\* init_schema, run again and again, with any of its statements failing
SchemaNext == init_schema_failing(SUBSET (ConstraintNames \cup IndexNames))

SchemaSpec == SchemaInit /\ [][SchemaNext]_vars

\* a poll has just been called, with some timeout and some interval
PollInit ==
    /\ pipeline_jobs = <<>>
    /\ co = [j \in Jobs |-> NoCoroutine]
    /\ dispatched = 0
    /\ current = {}
    /\ graph = EmptyGraph
    /\ calls \in {<<PollCall(op, timeout, interval)>> :
                    op \in {"poll_browse_result", "poll_research_result"},
                    timeout \in PollTimeouts, interval \in PollIntervals}
    /\ reply = NoReply

PollNext ==
    \/ poll_browse_result
    \/ poll_research_result

\* every awaited request returns or raises (httpx gives up after its own
\* timeout), every sleep ends
PollFairness == WF_vars(poll_browse_result) /\ WF_vars(poll_research_result)

PollSpec == PollInit /\ [][PollNext]_vars /\ PollFairness

(* ------------------------------ properties ---------------------------- *)

Settled(j) == co[j].outcome \in {"returned", "raised"}

HasRecord(j) == j \in DOMAIN pipeline_jobs

StepsOf(j) == pipeline_jobs[j].steps

AllCompleted(steps) == \A i \in DOMAIN steps : steps[i].status = "completed"

\* C1: once the coroutine of a job has returned or raised, the job's record
\* exists and its status is completed or failed, never running.
C1_JobCompletionGuarantee ==
    \A j \in Jobs :
        Settled(j) => HasRecord(j) /\ pipeline_jobs[j].status \in {"completed", "failed"}

\* a job whose coroutine raised, with the failure on its record
C1_Witness ==
    \E j \in Jobs :
        /\ co[j].outcome = "raised" /\ pipeline_jobs[j].status = "failed"
        /\ pipeline_jobs[j].error = Str("TypeError")

\* C2: a registry record changes only in a step of the coroutine that owns its
\* job id, and such a step leaves every other job's record as it was.
C2_JobIsolation ==
    [][\A j \in Jobs :
           get_pipeline_status(j)' # get_pipeline_status(j)
               => /\ co'[j] # co[j]
                  /\ \A k \in Jobs \ {j} :
                        /\ co'[k] = co[k]
                        /\ get_pipeline_status(k)' = get_pipeline_status(k)]_vars

\* two jobs of the same workflow in flight at once, both past their first step
C2_Witness ==
    \E j, k \in Jobs :
        /\ j # k /\ HasRecord(j) /\ HasRecord(k)
        /\ co[j].kind = co[k].kind
        /\ pipeline_jobs[j].status = "running" /\ pipeline_jobs[k].status = "running"
        /\ StepsOf(j)[1].status = "completed" /\ StepsOf(k)[2].status = "running"

StepsInOrder(steps) ==
    /\ \A i \in DOMAIN steps :
          steps[i].status \in {"running", "completed"}
              => \A h \in 1..(i - 1) : steps[h].status = "completed"
    /\ Cardinality({i \in DOMAIN steps : steps[i].status = "running"}) <= 1

StepMoves(old, new) ==
    /\ Len(new) = Len(old)
    /\ \A i \in DOMAIN old :
          /\ new[i].name = old[i].name
          /\ \/ new[i].status = old[i].status
             \/ old[i].status = "pending" /\ new[i].status = "running"
             \/ old[i].status = "running" /\ new[i].status = "completed"

\* C3: in every state the steps of a record respect the declared order (a step
\* is running or completed only if all earlier steps are completed, at most one
\* is running), and a step's status only moves pending -> running -> completed.
C3_StepOrdering ==
    /\ [](\A j \in DOMAIN pipeline_jobs : StepsInOrder(StepsOf(j)))
    /\ [][\A j \in DOMAIN pipeline_jobs :
             /\ j \in DOMAIN pipeline_jobs'
             /\ StepMoves(StepsOf(j), StepsOf(j)')]_vars

\* a job in the middle of its list: step 1 completed, step 2 running, step 3 pending
C3_Witness ==
    \E j \in DOMAIN pipeline_jobs :
        /\ StepsOf(j)[1].status = "completed"
        /\ StepsOf(j)[2].status = "running"
        /\ StepsOf(j)[3].status = "pending"

\* the status a caller sees: "queued" in the route's answer until the record is written
JobStatus(j) ==
    IF co[j].kind = "none" THEN "none"
    ELSE IF ~HasRecord(j) THEN "queued"
    ELSE pipeline_jobs[j].status

StatusMoves ==
    {<<"none", "queued">>, <<"queued", "running">>,
     <<"running", "completed">>, <<"running", "failed">>}

\* C4: a job's status only moves queued -> running -> completed | failed; a
\* completed or failed record never changes status again.
C4_StatusTransitions ==
    [][\A j \in Jobs :
           \/ JobStatus(j)' = JobStatus(j)
           \/ <<JobStatus(j), JobStatus(j)'>> \in StatusMoves]_vars

\* a job has gone all the way to failed, with every step before the failing one
\* completed
C4_Witness ==
    \E j \in Jobs :
        /\ JobStatus(j) = "failed"
        /\ Settled(j)
        /\ AllCompleted(StepsOf(j))

\* C5: the write that fails a job changes only status and error: the steps
\* (status and result of each) and the result are what they were just before.
C5_PartialStateSurvivesFailure ==
    [][\A j \in DOMAIN pipeline_jobs :
           (pipeline_jobs[j].status # "failed" /\ pipeline_jobs'[j].status = "failed")
               => /\ pipeline_jobs'[j].steps = pipeline_jobs[j].steps
                  /\ pipeline_jobs'[j].result = pipeline_jobs[j].result]_vars

\* a failed job whose record still shows a completed step with its result, the
\* step that failed, and a step never started
C5_Witness ==
    \E j \in DOMAIN pipeline_jobs :
        /\ pipeline_jobs[j].status = "failed"
        /\ pipeline_jobs[j].error # Absent
        /\ StepsOf(j)[1].status = "completed" /\ StepsOf(j)[1].result # Absent
        /\ StepsOf(j)[3].status = "running"
        /\ StepsOf(j)[4].status = "pending"

\* C6: a workflow that fails records the failure and does not raise to whoever
\* runs it.
C6_FailureContained ==
    \A j \in Jobs : co[j].outcome # "raised"

\* C7: in process_mention, when the evaluator raises, senso_evaluate is recorded
\* completed with accuracy 0.5, the job never fails, and once the coroutine has
\* ended every step is completed and the job is completed.
C7_GracefulEvaluation ==
    \A j \in Jobs :
        (co[j].kind = "process_mention" /\ co[j].eval_raised)
            => /\ StepsOf(j)[1].status = "completed"
               /\ HasGet(StepsOf(j)[1].result)
               /\ Get(StepsOf(j)[1].result, "accuracy", NoneV) = Num(NeutralAccuracy)
               /\ pipeline_jobs[j].status # "failed"
               /\ co[j].pc # "except"
               /\ Settled(j) => /\ co[j].outcome = "returned"
                                /\ pipeline_jobs[j].status = "completed"
                                /\ AllCompleted(StepsOf(j))

\* a process_mention job whose evaluator raised has ended completed
C7_Witness ==
    \E j \in Jobs :
        /\ co[j].kind = "process_mention" /\ co[j].eval_raised
        /\ Settled(j) /\ pipeline_jobs[j].status = "completed"

\* C8: whatever the evaluate, strategy and generate collaborators return or
\* raise, a remediate job ends completed with a non-null strategy and a non-null
\* correction_content.
C8_RemediationNeverNull ==
    \A j \in Jobs :
        (co[j].kind = "remediate" /\ Settled(j))
            => /\ pipeline_jobs[j].status = "completed"
               /\ HasGet(pipeline_jobs[j].result)
               /\ Get(pipeline_jobs[j].result, "strategy", NoneV) # NoneV
               /\ Get(pipeline_jobs[j].result, "correction_content", NoneV) # NoneV

\* the brand a process_mention job reads from its payload (line 76)
PayloadBrand(c) == Get(c.arg, "brand_id", Str("unknown_brand"))

\* C9: when a process_mention job is completed, the graph holds a Mention node
\* linked by ABOUT to the Brand its payload names.
C9_ProcessMentionPersists ==
    \A j \in Jobs :
        (co[j].kind = "process_mention" /\ HasRecord(j)
         /\ pipeline_jobs[j].status = "completed")
            => \E k \in RelsOf(graph, "ABOUT") :
                  /\ graph.nodes[graph.rels[k].src].label = "Mention"
                  /\ graph.nodes[graph.rels[k].dst].label = "Brand"
                  /\ Str(graph.nodes[graph.rels[k].dst].id) = PayloadBrand(co[j])

\* C10: when a remediate job is completed, the graph holds a Correction node
\* linked by CORRECTS to the target mention and by FOR_BRAND to that mention's
\* brand.
C10_RemediateStoresCorrection ==
    \A j \in Jobs :
        (co[j].kind = "remediate" /\ HasRecord(j)
         /\ pipeline_jobs[j].status = "completed")
            => \E c \in Labelled(graph, "Correction") :
                  \E k \in RelsOf(graph, "CORRECTS"), f \in RelsOf(graph, "FOR_BRAND"),
                     a \in RelsOf(graph, "ABOUT") :
                      /\ graph.rels[k].src = c /\ graph.rels[f].src = c
                      /\ Str(graph.nodes[graph.rels[k].dst].id) = co[j].arg
                      /\ graph.rels[a].src = graph.rels[k].dst
                      /\ graph.rels[a].dst = graph.rels[f].dst

\* the Mention severity bands of the data model, on the 0-100 scale
DataModelBand(score) ==
    IF score < 40 THEN "critical"
    ELSE IF score < 60 THEN "high"
    ELSE IF score < 80 THEN "medium"
    ELSE "low"

\* str.upper() on the four severity words
Upper(word) ==
    CASE word = "critical" -> "CRITICAL"
      [] word = "high" -> "HIGH"
      [] word = "medium" -> "MEDIUM"
      [] word = "low" -> "LOW"

\* a process_mention job whose scoring step has recorded its result
Scored(j) ==
    /\ HasRecord(j) /\ co[j].kind = "process_mention"
    /\ StepsOf(j)[3].status = "completed"

ScoredAccuracy(j) == Get(StepsOf(j)[3].result, "accuracy", NoneV).n

ScoredSeverity(j) == Get(StepsOf(j)[3].result, "severity", NoneV)

\* C11 as stated: the severity process_mention derives from accuracy a is the
\* data-model band of the score 100 * a (critical below 40, high below 60, medium
\* below 80, low otherwise), compared case-insensitively.
C11_SeverityIsDataModelBand ==
    \A j \in Jobs :
        Scored(j) => ScoredSeverity(j) = Str(Upper(DataModelBand(ScoredAccuracy(j))))

\* C11 amended: the severity process_mention derives is CRITICAL for an accuracy
\* below 0.6, HIGH below 0.8, MEDIUM below 0.9 and LOW otherwise.
C11_SeverityIsPipelineBand ==
    \A j \in Jobs :
        Scored(j) =>
            LET a == ScoredAccuracy(j) IN
            /\ a < 60 => ScoredSeverity(j) = Str("CRITICAL")
            /\ (60 <= a /\ a < 80) => ScoredSeverity(j) = Str("HIGH")
            /\ (80 <= a /\ a < 90) => ScoredSeverity(j) = Str("MEDIUM")
            /\ 90 <= a => ScoredSeverity(j) = Str("LOW")

\* an evaluator accuracy of 0.7 was scored HIGH (its data-model band is medium)
C11_Witness ==
    \E j \in Jobs :
        /\ Scored(j) /\ ~co[j].eval_raised
        /\ ScoredAccuracy(j) = 70 /\ ScoredSeverity(j) = Str("HIGH")

\* the payload of the end-to-end scenario
ScenarioMention == Dict([brand_id |-> Str("acme"), content |-> Str("claim text")])

\* process_mention runs on the scenario payload and the evaluator returned 0.5
InScenario(j) ==
    /\ co[j].kind = "process_mention" /\ co[j].arg = ScenarioMention
    /\ ~co[j].eval_raised /\ HasGet(co[j].eval_res)
    /\ Get(co[j].eval_res, "accuracy", NoneV) = Num(50)

\* C12: process_mention on {brand_id: acme, content: claim text} with an
\* evaluator that returns accuracy 0.5 never fails and ends completed with
\* severity CRITICAL, alert_created true and auto_remediate_queued true.
C12_EndToEndScenario ==
    \A j \in Jobs :
        InScenario(j) =>
            /\ co[j].pc # "except" /\ pipeline_jobs[j].status # "failed"
            /\ Settled(j) =>
                 /\ co[j].outcome = "returned"
                 /\ pipeline_jobs[j].status = "completed"
                 /\ Get(pipeline_jobs[j].result, "severity", NoneV) = Str("CRITICAL")
                 /\ Get(pipeline_jobs[j].result, "alert_created", NoneV) = Bool(TRUE)
                 /\ Get(pipeline_jobs[j].result, "auto_remediate_queued", NoneV) = Bool(TRUE)

\* the scenario has run to its end
C12_Witness ==
    \E j \in Jobs :
        /\ InScenario(j) /\ Settled(j)
        /\ Get(pipeline_jobs[j].result, "accuracy", NoneV) = Num(50)

\* C14: a record whose status is failed carries the message of the exception
\* that failed it in its error field; a record whose status is running or
\* completed has no error field.
C14_ErrorOnlyOnFailed ==
    \A j \in DOMAIN pipeline_jobs :
        /\ pipeline_jobs[j].status = "failed"
              => /\ co[j].exc # ""
                 /\ pipeline_jobs[j].error = Str(co[j].exc)
        /\ pipeline_jobs[j].status \in {"running", "completed"}
              => pipeline_jobs[j].error = Absent

\* a job failed in its scoring step by an AttributeError, recorded as its error
C14_Witness ==
    \E j \in DOMAIN pipeline_jobs :
        /\ pipeline_jobs[j].status = "failed"
        /\ pipeline_jobs[j].error = Str("AttributeError")
        /\ StepsOf(j)[3].status = "running"

\* the scores the banding rule names, each with the severity it must get
BandTable ==
    {<<39, "critical">>, <<40, "high">>, <<59, "high">>, <<60, "medium">>,
     <<79, "medium">>, <<80, "low">>, <<95, "low">>}

\* the Mention node a first query of store_mention has just created
NewMention == graph'.nodes[Len(graph'.nodes)]

\* a step of a writer that derives the severity from the score it stores
DerivingStore ==
    \/ run_full_scan(MaxIngested)
    \/ seed_neo4j_derived(MaxIngested)
    \/ seed_extra_brands_derived(MaxIngested)

\* C13: the severity derived on the 0-100 scale by run_full_scan and by the two
\* seeding helpers is critical below 40, high from 40 below 60, medium from 60
\* below 80 and low from 80; 39, 40, 59, 60, 79, 80, 95 give critical, high,
\* high, medium, medium, low, low; and the Mention such a writer stores carries
\* the band of the score stored with it.
C13_SeverityBanding ==
    /\ [](\A row \in BandTable :
            /\ ScanSeverity(row[1]) = row[2]
            /\ severity_from_score(row[1]) = row[2]
            /\ extra_severity(row[1]) = row[2])
    /\ [][(DerivingStore /\ Len(graph'.nodes) > Len(graph.nodes))
            => /\ NewMention.label = "Mention"
               /\ NewMention.severity = DataModelBand(NewMention.accuracy_score)
               /\ \A row \in BandTable :
                    NewMention.accuracy_score = row[1] => NewMention.severity = row[2]]_vars

\* the full scan has stored a mention that scores 79 as medium
C13_Witness ==
    /\ reply.op = "store_mention" /\ reply.caller = "scan" /\ reply.outcome = "returned"
    /\ reply.request.accuracy_score = 79
    /\ \E i \in DOMAIN graph.nodes :
          /\ graph.nodes[i].label = "Mention"
          /\ graph.nodes[i].accuracy_score = 79 /\ graph.nodes[i].severity = "medium"

NodesOf(label) == {i \in DOMAIN graph.nodes : graph.nodes[i].label = label}

Edges(type, src, dst) ==
    {k \in DOMAIN graph.rels :
        graph.rels[k].type = type /\ graph.rels[k].src = src /\ graph.rels[k].dst = dst}

OutEdges(type, src) ==
    {k \in DOMAIN graph.rels : graph.rels[k].type = type /\ graph.rels[k].src = src}

\* a store_mention call has returned its result to its caller
StoreReturned == reply.op = "store_mention" /\ reply.outcome = "returned"

\* C15: however store_mention calls follow and interleave, no two Brand nodes
\* have the same id, every Brand node is the Brand of some Mention, and the brand
\* id of every call that stored its Mention (in progress or returned) has
\* exactly one Brand node.
C15_OneBrandPerId ==
    /\ \A i, k \in NodesOf("Brand") : graph.nodes[i].id = graph.nodes[k].id => i = k
    /\ \A i \in NodesOf("Brand") : \E m \in NodesOf("Mention") : Edges("ABOUT", m, i) # {}
    /\ \A n \in DOMAIN calls :
          Cardinality({i \in NodesOf("Brand") :
                          graph.nodes[i].id = calls[n].mention.brand_id}) = 1
    /\ StoreReturned =>
          Cardinality({i \in NodesOf("Brand") :
                          graph.nodes[i].id = reply.request.brand_id}) = 1

\* two calls for the same brand are in progress at once, and there is one Brand
C15_Witness ==
    /\ Len(calls) = 2
    /\ calls[1].mention.brand_id = "acme" /\ calls[2].mention.brand_id = "acme"
    /\ Cardinality(NodesOf("Mention")) = 2
    /\ Cardinality(NodesOf("Brand")) = 1

\* C16: once the store_mention calls have returned, there is one Source node
\* per url, no Mention has two SOURCED_FROM edges into the same Source, and the
\* Mention of the call that returned last has exactly one SOURCED_FROM edge into
\* the Source of each url it cited.
C16_OneSourceEdgePerMention ==
    calls = <<>> =>
        /\ \A i, k \in NodesOf("Source") : graph.nodes[i].url = graph.nodes[k].url => i = k
        /\ \A m \in NodesOf("Mention"), s \in NodesOf("Source") :
              Cardinality(Edges("SOURCED_FROM", m, s)) <= 1
        /\ StoreReturned =>
              \A n \in DOMAIN reply.request.source_urls :
                  \E s \in NodesOf("Source") :
                      /\ graph.nodes[s].url = reply.request.source_urls[n]
                      /\ Cardinality(Edges("SOURCED_FROM", reply.body.neo4j_id.n, s)) = 1

\* C17: every Mention node has exactly one outgoing ABOUT edge, to a Brand, and
\* exactly one outgoing FOUND_ON edge, to a Platform.
C17_MentionEdgeCardinality ==
    \A m \in NodesOf("Mention") :
        /\ Cardinality(OutEdges("ABOUT", m)) = 1
        /\ \A k \in OutEdges("ABOUT", m) : graph.nodes[graph.rels[k].dst].label = "Brand"
        /\ Cardinality(OutEdges("FOUND_ON", m)) = 1
        /\ \A k \in OutEdges("FOUND_ON", m) :
              graph.nodes[graph.rels[k].dst].label = "Platform"

\* two Mentions with their sources linked and a Correction stored on one of them
C17_Witness ==
    /\ calls = <<>>
    /\ Cardinality(NodesOf("Mention")) = 2
    /\ NodesOf("Source") # {} /\ NodesOf("Correction") # {}
    /\ "mention_id" \in graph.constraints

\* C18: every Mention in the graph has the severity of the band of its own
\* accuracy_score (critical below 40, high below 60, medium below 80, else low).
C18_StoredSeverityIsBand ==
    \A m \in NodesOf("Mention") :
        graph.nodes[m].severity = DataModelBand(graph.nodes[m].accuracy_score)

\* C19: every Mention in the graph has is_accurate true exactly when its
\* accuracy_score is at least 70.
C19_IsAccurateDerived ==
    \A m \in NodesOf("Mention") :
        /\ graph.nodes[m].accuracy_score >= 70 => graph.nodes[m].is_accurate = TRUE
        /\ graph.nodes[m].accuracy_score < 70 => graph.nodes[m].is_accurate = FALSE

\* a Mention that scores exactly 70 is stored as accurate
C19_Witness ==
    \E m \in NodesOf("Mention") :
        graph.nodes[m].accuracy_score = 70 /\ graph.nodes[m].is_accurate = TRUE

\* C20: a store_correction call whose mention id no Mention node has raises
\* NotFound to its caller and returns no result.
C20_UnknownMentionRaises ==
    (/\ reply.op = "store_correction"
     /\ \A m \in NodesOf("Mention") : graph.nodes[m].id # reply.request.mention_id)
        => reply.outcome = "raised" /\ reply.body = Str("NotFound")

\* C21: a store_correction call whose mention id no Mention node has leaves the
\* graph as it was: no Correction node and no CORRECTS or FOR_BRAND edge is
\* added, and nothing else changes.
C21_NoOrphanedCorrection ==
    [][(/\ store_correction(MaxLinkCorrections)
        /\ MentionsWith(graph, reply'.request.mention_id) = {})
          => graph' = graph]_vars

\* a correction for an id that no stored Mention has was answered, and the graph
\* holds Mentions but no Correction
C21_Witness ==
    /\ reply.op = "store_correction" /\ reply.outcome = "returned"
    /\ reply.request.mention_id = "m9"
    /\ NodesOf("Mention") # {}
    /\ NodesOf("Correction") = {}

\* C22: every Correction node has exactly one CORRECTS edge, to a Mention node,
\* and exactly one FOR_BRAND edge, to the Brand that this Mention is ABOUT; the
\* request of store_correction has no field that names a brand.
C22_CorrectionLinkage ==
    /\ \A request \in StoreCorrectionRequests :
          DOMAIN request \cap {"brand_id", "brand_name", "brand"} = {}
    /\ \A c \in NodesOf("Correction") :
          /\ Cardinality(OutEdges("CORRECTS", c)) = 1
          /\ Cardinality(OutEdges("FOR_BRAND", c)) = 1
          /\ \A k \in OutEdges("CORRECTS", c), f \in OutEdges("FOR_BRAND", c) :
                /\ graph.nodes[graph.rels[k].dst].label = "Mention"
                /\ graph.nodes[graph.rels[f].dst].label = "Brand"
                /\ Edges("ABOUT", graph.rels[k].dst, graph.rels[f].dst) # {}

\* a Correction is stored on a Mention of the second Brand of the graph
C22_Witness ==
    /\ Cardinality(NodesOf("Brand")) = 2
    /\ \E c \in NodesOf("Correction") :
          \E f \in OutEdges("FOR_BRAND", c), k \in OutEdges("CORRECTS", c) :
              /\ graph.rels[f].dst # Least(NodesOf("Brand"))
              /\ Edges("ABOUT", graph.rels[k].dst, graph.rels[f].dst) # {}

\* C23: once a Mention node exists, no later step (a store_correction on it, a
\* store_mention for the same or another brand or source, a source query,
\* init_schema) changes its claim, accuracy_score, is_accurate, severity or
\* detected_at: the node stays in the graph with every property as it was.
C23_MentionsImmutable ==
    [][\A i \in NodesOf("Mention") :
          /\ i \in DOMAIN graph'.nodes
          /\ graph'.nodes[i] = graph.nodes[i]]_vars

\* after a Mention was stored, a second Mention of the same brand cited the same
\* Source, a Correction was stored on the first, and init_schema ran last
C23_Witness ==
    /\ reply.op = "init_schema"
    /\ calls = <<>>
    /\ \E m1, m2 \in NodesOf("Mention") :
          /\ m1 < m2
          /\ \E b \in NodesOf("Brand") :
                Edges("ABOUT", m1, b) # {} /\ Edges("ABOUT", m2, b) # {}
          /\ \E s \in NodesOf("Source") :
                Edges("SOURCED_FROM", m1, s) # {} /\ Edges("SOURCED_FROM", m2, s) # {}
          /\ \E c \in NodesOf("Correction") : Edges("CORRECTS", c, m1) # {}

\* C24: no two Mention nodes share an id, and a store_mention call that passes
\* an id some Mention node already has adds no node and no edge.
C24_MentionIdsUnique ==
    /\ [](\A i, k \in NodesOf("Mention") : graph.nodes[i].id = graph.nodes[k].id => i = k)
    /\ [][\A request \in StoreMentionRequests :
            (/\ request.id # ""
             /\ MentionsWith(graph, request.id) # {}
             /\ current = {}
             /\ BeginStore("api", request))
                => graph'.nodes = graph.nodes /\ graph'.rels = graph.rels]_vars

\* str.lower() on the platform names in use
Lower(word) ==
    CASE word = "ChatGPT" -> "chatgpt"
      [] OTHER -> word

\* C25: every Platform node has a lower-case name, and no two Platform nodes
\* have names that differ only in letter case (mentions found on 'ChatGPT' and
\* on 'chatgpt' are linked to one Platform node).
C25_PlatformNamesLowerCase ==
    /\ \A p \in NodesOf("Platform") : graph.nodes[p].name = Lower(graph.nodes[p].name)
    /\ \A p, q \in NodesOf("Platform") :
          Lower(graph.nodes[p].name) = Lower(graph.nodes[q].name) => p = q

\* C26: every Mention in the graph has an accuracy_score from 0 to 100: a
\* mention whose score is out of range is rejected before any node or edge is
\* written, on every write path (graph API, webhook receiver, full scan).
C26_AccuracyInRange ==
    \A m \in NodesOf("Mention") :
        graph.nodes[m].accuracy_score >= 0 /\ graph.nodes[m].accuracy_score <= 100

\* C27: a store_mention call returns relationships_created = 2 + 2 * the number
\* of its source urls, and that many relationships are what the call created;
\* stated where it can be read off the graph: after the only call that stored a
\* Mention has returned, the graph holds exactly that many relationships.
C27_RelationshipCount ==
    StoreReturned =>
        /\ reply.body.relationships_created = 2 + 2 * Len(reply.request.source_urls)
        /\ (Cardinality(NodesOf("Mention")) = 1 /\ NodesOf("Correction") = {})
              => Len(graph.rels) = reply.body.relationships_created

\* the names init_schema seeds
CanonicalNames == {CanonicalPlatforms[n] : n \in DOMAIN CanonicalPlatforms}

\* C28: a run of init_schema, the first or a later one, on an empty or a
\* populated graph, returns without raising; it leaves every node and every edge
\* as it was, adds only Platform nodes of the four names that had none, and
\* leaves exactly one Platform node for each of chatgpt, claude, perplexity and
\* gemini; a run on a graph that a run has already seeded adds nothing.
C28_InitSchemaIdempotent ==
    [][init_schema =>
         /\ reply'.outcome = "returned"
         /\ graph'.rels = graph.rels
         /\ Len(graph'.nodes) >= Len(graph.nodes)
         /\ \A i \in DOMAIN graph.nodes : graph'.nodes[i] = graph.nodes[i]
         /\ \A i \in DOMAIN graph'.nodes \ DOMAIN graph.nodes :
               /\ graph'.nodes[i].label = "Platform"
               /\ graph'.nodes[i].name \in CanonicalNames
               /\ PlatformsWith(graph, graph'.nodes[i].name) = {}
         /\ \A name \in CanonicalNames : Cardinality(PlatformsWith(graph', name)) = 1
         /\ SchemaInitialized(graph) => graph'.nodes = graph.nodes]_vars

\* init_schema has run before a Mention was stored and again after its store
\* returned
C28_Witness ==
    /\ reply.op = "init_schema"
    /\ calls = <<>>
    /\ \E p \in NodesOf("Platform"), m \in NodesOf("Mention") :
          graph.nodes[p].name = "gemini" /\ p < m

\* the Mention nodes that are ABOUT the Brand of an id
MentionsAbout(brand_id) ==
    {m \in NodesOf("Mention") :
        \E b \in NodesOf("Brand") : graph.nodes[b].id = brand_id /\ Edges("ABOUT", m, b) # {}}

RECURSIVE ScoreSum(_)
ScoreSum(mentions) ==
    IF mentions = {} THEN 0
    ELSE LET m == CHOOSE m \in mentions : TRUE
         IN graph.nodes[m].accuracy_score + ScoreSum(mentions \ {m})

\* platform A with 2 mentions that average 90, platform B with 8 that average 50
TwoAndEight ==
    {[platform |-> "chatgpt", accuracy |-> 900, mentions |-> 2],
     [platform |-> "claude", accuracy |-> 500, mentions |-> 8]}

\* C29: the overall_accuracy get_brand_health returns is the mean of the
\* accuracy scores of all the brand's mentions, which is the mean of the platform
\* averages weighted by their mention counts, rounded to one decimal (0 for a
\* brand without mentions); for 2 mentions averaging 90 on one platform and 8
\* averaging 50 on another it is 58.0, not the plain average 70.0.
C29_WeightedAggregation ==
    reply.op = "get_brand_health" =>
        LET mentions == MentionsAbout(reply.request.s)
        IN /\ reply.body.total_mentions = Cardinality(mentions)
           /\ mentions = {} => reply.body.overall_accuracy = 0
           /\ mentions # {} =>
                 reply.body.overall_accuracy = Round1(ScoreSum(mentions), Cardinality(mentions))
           /\ reply.body.by_platform = TwoAndEight => reply.body.overall_accuracy = 580

\* the health of a brand with 2 mentions of 90 on chatgpt and 8 of 50 on claude
\* was asked for
C29_Witness ==
    /\ reply.op = "get_brand_health"
    /\ reply.body.by_platform = TwoAndEight
    /\ reply.body.overall_accuracy = 580
    /\ Cardinality(MentionsAbout(reply.request.s)) = 10

\* the id get_brand_network gives a node in its output
NodeKey(i) ==
    CASE graph.nodes[i].label = "Brand" -> "brand-" \o graph.nodes[i].id
      [] graph.nodes[i].label = "Mention" -> "mention-" \o graph.nodes[i].id
      [] graph.nodes[i].label = "Platform" -> "platform-" \o graph.nodes[i].name
      [] graph.nodes[i].label = "Source" -> "source-" \o graph.nodes[i].url
      [] graph.nodes[i].label = "Correction" -> "correction-" \o graph.nodes[i].id

\* the relationships of a brand's subgraph: ABOUT, FOUND_ON and SOURCED_FROM of
\* its Mentions, FEEDS of the Sources they cite, CORRECTS of their Corrections
SubgraphRels(brand_id) ==
    LET mentions == MentionsAbout(brand_id)
        sources == {graph.rels[k].dst : k \in {k \in DOMAIN graph.rels :
                        graph.rels[k].type = "SOURCED_FROM" /\ graph.rels[k].src \in mentions}}
    IN {k \in DOMAIN graph.rels :
          \/ graph.rels[k].type \in {"FOUND_ON", "SOURCED_FROM"} /\ graph.rels[k].src \in mentions
          \/ /\ graph.rels[k].type = "ABOUT" /\ graph.rels[k].src \in mentions
             /\ graph.nodes[graph.rels[k].dst].id = brand_id
          \/ graph.rels[k].type = "FEEDS" /\ graph.rels[k].src \in sources
          \/ graph.rels[k].type = "CORRECTS" /\ graph.rels[k].dst \in mentions}

\* how often an edge stands in the list put out
Occurrences(edges, edge) == Cardinality({n \in DOMAIN edges : edges[n] = edge})

\* C30: for every ABOUT, FOUND_ON, SOURCED_FROM, FEEDS and CORRECTS relationship
\* of the brand's subgraph, the edge list of get_brand_network holds the edge of
\* its (source, target, type) exactly once, neither twice nor not at all.
C30_EdgeDeduplication ==
    reply.op = "get_brand_network" =>
        \A k \in SubgraphRels(reply.request.s) :
            Occurrences(reply.body.edges,
                        Edge(NodeKey(graph.rels[k].src), NodeKey(graph.rels[k].dst),
                             graph.rels[k].type)) = 1

\* C31: the threats get_brand_threats returns are at most `limit`, each is a
\* Mention about the brand asked for, each scores below 70 (never 70 or more),
\* and they come in ascending order of accuracy_score.
C31_ThreatProjection ==
    reply.op = "get_brand_threats" =>
        LET threats == reply.body.threats
            brand_id == reply.request.d.brand_id.s
            limit == reply.request.d.limit.n
        IN /\ Len(threats) <= limit
           /\ \A i \in DOMAIN threats :
                 /\ \E m \in MentionsAbout(brand_id) :
                       /\ graph.nodes[m].id = threats[i].id
                       /\ graph.nodes[m].accuracy_score = threats[i].accuracy_score
                 /\ threats[i].accuracy_score < 70
           /\ \A i, h \in DOMAIN threats :
                 i < h => threats[i].accuracy_score <= threats[h].accuracy_score

\* the Mentions about a brand that score below 70 and were sourced from a url
LowFeeders(brand_id, url) ==
    {m \in MentionsAbout(brand_id) :
        /\ graph.nodes[m].accuracy_score < 70
        /\ \E k \in DOMAIN graph.rels :
              /\ graph.rels[k].type = "SOURCED_FROM" /\ graph.rels[k].src = m
              /\ graph.nodes[graph.rels[k].dst].url = url}

\* C32: get_brand_sources returns at most `limit` entries; each is a Source that
\* at least one Mention about the brand with accuracy_score < 70 cites, with
\* mentions_fed the number of distinct such Mentions; mentions_fed never rises
\* along the list.
C32_SourceRanking ==
    reply.op = "get_brand_sources" =>
        LET sources == reply.body.sources
            brand_id == reply.request.d.brand_id.s
            limit == reply.request.d.limit.n
        IN /\ Len(sources) <= limit
           /\ \A i \in DOMAIN sources :
                 /\ LowFeeders(brand_id, sources[i].url) # {}
                 /\ sources[i].mentions_fed =
                        Cardinality(LowFeeders(brand_id, sources[i].url))
           /\ \A i, h \in DOMAIN sources :
                 i < h => sources[i].mentions_fed >= sources[h].mentions_fed

\* the sources of a brand with three mentions were asked for: two inaccurate
\* mentions cite one url, one of them and a mention that scores 70 cite the other
C32_Witness ==
    /\ reply.op = "get_brand_sources"
    /\ reply.request.d.limit.n = 20
    /\ Len(reply.body.sources) = 2
    /\ reply.body.sources[1].url = UrlA /\ reply.body.sources[1].mentions_fed = 2
    /\ reply.body.sources[1].platforms_affected = {"chatgpt", "claude"}
    /\ reply.body.sources[2].url = UrlB /\ reply.body.sources[2].mentions_fed = 1
    /\ \E m \in MentionsAbout(reply.request.d.brand_id.s) :
          /\ graph.nodes[m].accuracy_score = 70
          /\ \E k \in DOMAIN graph.rels :
                /\ graph.rels[k].type = "SOURCED_FROM" /\ graph.rels[k].src = m
                /\ graph.nodes[graph.rels[k].dst].url = UrlB

\* the brand id a read route was asked for
AskedBrand ==
    IF reply.op \in {"get_brand_health", "get_brand_network"} THEN reply.request.s
    ELSE reply.request.d.brand_id.s

\* C33: asked for a brand that has no mentions (here: a brand id the graph does
\* not hold), get_brand_health returns overall_accuracy 0, counters 0 and an
\* empty by_platform, get_brand_sources an empty list, get_brand_network no
\* Mention, Platform, Source or Correction node and no edge; none of them raises.
C33_ZeroResultBrands ==
    (/\ reply.op \in {"get_brand_health", "get_brand_sources", "get_brand_network"}
     /\ MentionsAbout(AskedBrand) = {})
        => /\ reply.outcome = "returned"
           /\ reply.op = "get_brand_health" =>
                 reply.body = [overall_accuracy |-> 0, total_mentions |-> 0,
                               accurate_mentions |-> 0, threats |-> 0, by_platform |-> {}]
           /\ reply.op = "get_brand_sources" => reply.body.sources = <<>>
           /\ reply.op = "get_brand_network" =>
                 /\ \A n \in reply.body.nodes : n.type = "Brand"
                 /\ reply.body.edges = <<>>

\* the health of a brand the graph does not hold was asked for, on a graph that
\* holds mentions, sources and platforms of two other brands
C33_Witness ==
    /\ reply.op = "get_brand_health"
    /\ reply.request.s = "initech"
    /\ reply.outcome = "returned"
    /\ MentionsAbout("acme") # {} /\ MentionsAbout("globex") # {}
    /\ NodesOf("Source") # {}

\* C34: a call of get_brand_health, get_brand_sources, get_brand_network or
\* get_brand_threats leaves the graph as it was: the same nodes with the same
\* properties, the same relationships, the same constraints.
C34_ReadsLeaveGraph ==
    [][reply'.op \in {"get_brand_health", "get_brand_sources", "get_brand_network",
                      "get_brand_threats"}
          => /\ graph'.nodes = graph.nodes
             /\ graph'.rels = graph.rels
             /\ graph'.constraints = graph.constraints]_vars

\* the network of a brand the graph does not hold was asked for and answered
\* with nothing, on a graph of three mentions with sources
C34_Witness ==
    /\ reply.op = "get_brand_network"
    /\ BrandsWith(graph, reply.request.s) = {}
    /\ reply.body.nodes = {}
    /\ Cardinality(NodesOf("Mention")) = 3
    /\ NodesOf("Source") # {}

\* C38: every edge get_brand_network puts out has its source id and its target
\* id among the ids of the nodes of the same answer, whatever the graph holds.
C38_NetworkClosed ==
    reply.op = "get_brand_network" =>
        \A i \in DOMAIN reply.body.edges :
            /\ \E n \in reply.body.nodes : n.id = reply.body.edges[i].source
            /\ \E n \in reply.body.nodes : n.id = reply.body.edges[i].target

\* C36: in every state a record with status 'completed' has each of its steps
\* 'completed' and a result that is not None, and a record with status
\* 'running' has result None.
C36_CompletedMeansComplete ==
    \A j \in DOMAIN pipeline_jobs :
        /\ pipeline_jobs[j].status = "completed"
              => AllCompleted(StepsOf(j)) /\ pipeline_jobs[j].result # NoneV
        /\ pipeline_jobs[j].status = "running" => pipeline_jobs[j].result = NoneV

\* one job completed with its result while another is running with its first
\* step completed and its second running
C36_Witness ==
    \E j, k \in DOMAIN pipeline_jobs :
        /\ pipeline_jobs[j].status = "completed"
        /\ pipeline_jobs[j].result # NoneV
        /\ Len(StepsOf(j)) = 4
        /\ pipeline_jobs[k].status = "running"
        /\ StepsOf(k)[1].status = "completed" /\ StepsOf(k)[2].status = "running"

\* C37: the registry never holds a record with status 'queued'; a job id a route
\* has handed back whose background task has not started has no record, so
\* get_pipeline_status answers 404 for it; the first record of a job id is
\* written by the start of its task, with status 'running'.
C37_NoQueuedRecord ==
    /\ [](/\ \A j \in DOMAIN pipeline_jobs : pipeline_jobs[j].status # "queued"
          /\ \A j \in Jobs : co[j].pc = "queued" => get_pipeline_status(j) = [t |-> "404"])
    /\ [][\A j \in Jobs :
             (~HasRecord(j) /\ HasRecord(j)')
                 => /\ co[j].pc = "queued" /\ co'[j].pc # "queued"
                    /\ pipeline_jobs'[j].status = "running"]_vars

\* two job ids handed back: the task of one has written its record, the other
\* has not started and has none
C37_Witness ==
    \E j, k \in Jobs :
        /\ co[j].pc = "queued" /\ ~HasRecord(j)
        /\ co[k].kind # "none" /\ co[k].pc # "queued"
        /\ HasRecord(k) /\ pipeline_jobs[k].status = "running"

\* C35: if every awaited collaborator or sleep call returns or raises in the
\* end, a job whose record has status 'running' reaches status 'completed' or
\* 'failed'.
C35_JobLiveness ==
    \A j \in Jobs :
        (HasRecord(j) /\ pipeline_jobs[j].status = "running")
            ~> (HasRecord(j) /\ pipeline_jobs[j].status \in {"completed", "failed"})

\* both jobs have run to their end next to each other: one completed, one failed
C35_Witness ==
    \E j, k \in Jobs :
        /\ Settled(j) /\ Settled(k)
        /\ pipeline_jobs[j].status = "completed" /\ co[j].kind = "investigate"
        /\ pipeline_jobs[k].status = "failed" /\ co[k].kind = "remediate"

\* C40: whichever of the seven constraint and index statements fail in a run of
\* init_schema, the run returns without raising; every statement that is not
\* logged as skipped has taken effect (its constraint or index exists after the
\* run), a skipped one has changed nothing, and each of the four canonical
\* platforms has a node after the run.
C40_SchemaFailuresNonFatal ==
    [][reply'.op = "init_schema" =>
         LET skipped == reply'.body.skipped
         IN /\ reply'.outcome = "returned"
            /\ \A name \in ConstraintNames \ skipped : name \in graph'.constraints
            /\ \A name \in IndexNames \ skipped : name \in graph'.indexes
            /\ \A name \in skipped :
                  /\ name \in graph'.constraints <=> name \in graph.constraints
                  /\ name \in graph'.indexes <=> name \in graph.indexes
            /\ \A name \in CanonicalNames : PlatformsWith(graph', name) # {}]_vars

\* a run on a graph that holds a mention id twice: the second, third and sixth
\* statements were skipped, the four others took effect, the platforms are there
C40_Witness ==
    /\ reply.op = "init_schema"
    /\ reply.body.skipped = {"platform_name", "mention_id", "mention_accuracy"}
    /\ graph.constraints = {"brand_id", "source_url", "correction_id"}
    /\ graph.indexes = {"mention_date"}
    /\ ~Unique(graph, "mention_id")
    /\ \A name \in CanonicalNames : PlatformsWith(graph, name) # {}


\* the operations that poll a Yutori task
PollOps == {"poll_browse_result", "poll_research_result"}

FinalStatuses == {Str("succeeded"), Str("failed")}

\* the poll that ends in this step returns a result whose status is final
EndsReturningFinal ==
    /\ reply'.outcome = "returned"
    /\ HasGet(reply'.body)
    /\ Get(reply'.body, "status", Str("")) \in FinalStatuses

\* the poll that ends in this step raises TimeoutError, its timeout elapsed
EndsTimedOut ==
    /\ reply' = Failed(calls[1].op, "caller", PollRequest(calls[1]), "TimeoutError")
    /\ calls[1].elapsed >= calls[1].timeout

\* the poll that ends in this step passes on what its awaited request raised
EndsOnRequestError ==
    /\ calls[1].pc = "await_get"
    /\ reply'.outcome = "raised"
    /\ reply'.body \in {Str("HTTPError"), Str("AttributeError")}

PollEnding == calls # <<>> /\ calls' = <<>>

\* C39 as stated: poll_browse_result and poll_research_result always
\* terminate, and a poll ends in one of two ways only: it returns a result
\* whose status is 'succeeded' or 'failed', or it raises TimeoutError with the
\* elapsed time at or past the timeout; no result with another status is
\* ever returned.
C39_PollTwoEndings ==
    /\ <>(calls = <<>>)
    /\ [][PollEnding => (EndsReturningFinal \/ EndsTimedOut)]_vars

\* C39 amended: poll_browse_result and poll_research_result always terminate;
\* a poll ends by returning a result whose status is 'succeeded' or 'failed',
\* by raising TimeoutError with the elapsed time at or past the timeout, or by
\* passing on the exception of its awaited request (an HTTP error, a body that
\* is no dict); no result with another status is ever returned.
C39_PollEndings ==
    /\ <>(calls = <<>>)
    /\ [](reply.op \in PollOps /\ reply.outcome = "returned"
            => Get(reply.body, "status", Str("")) \in FinalStatuses)
    /\ [][PollEnding => (EndsReturningFinal \/ EndsTimedOut \/ EndsOnRequestError)]_vars

\* a research poll with the longest timeout ran into TimeoutError (every
\* result it saw was not final)
C39_Witness ==
    /\ reply.op = "poll_research_result"
    /\ reply.outcome = "raised"
    /\ reply.body = Str("TimeoutError")
    /\ reply.request = Dict([task_id |-> Str("t1"), timeout |-> Num(MaxPollTimeout),
                             interval |-> Num(1)])

=============================================================================
